---- MODULE Spec2Model ----
(***************************************************************************)
(* Volumetric reconstruction and inference post-processing of              *)
(* backend/biomedparse_api.py: DICOM series stacking, slice batch size     *)
(* resolution, per-prompt confidences, artifact fetch, heatmap validation, *)
(* lazy model construction and the 3D inference requests.  Each component  *)
(* has its own specification over the shared variables; variables of the   *)
(* other components stay at their idle value.                              *)
(***************************************************************************)
EXTENDS Integers, Sequences, FiniteSets, TLC

VARIABLES
    \* _stack_dicom_series_from_dir
    tree,               \* files present under root_dir (catalogue ids)
    dicom_files,        \* candidate paths in the order os.walk discovered them
    idx,                \* position of the "for p in dicom_files" loop
    robust_slices,      \* list of <<dist, arr>>
    fallback_slices,    \* list of <<key, arr>>
    reference_ipp,      \* Optional 3-vector
    reference_normal,   \* Optional 3-vector
    vol,                \* returned volume: slices in stacking order, h, w
    stack_pc,           \* "idle" | "walk" | "read" | "sort" | "done" | "raised"
    stack_error,        \* message of the exception when stack_pc = "raised"
    \* process environment and accelerator
    environ,            \* os.environ: variable name -> Optional string
    cuda,               \* [available, query_ok, total_memory]
    \* _effective_slice_batch_size
    user_specified,     \* argument of the last call (Optional int)
    sbs,                \* value it returned (Optional int)
    batch_pc,           \* "idle" | "ready" | "called"
    \* per-prompt post-processing of _infer_3d_nifti / _infer_3d_dicom_zip
    output,             \* one prompt's channel: mask logits [D][V], existence logits [D]
    threshold,          \* the threshold query parameter, in units of 1/ProbScale
    endpoint,           \* "none" | "nifti" | "dicom": which function produced the entry
    vol_mask_bin,       \* binary mask of the prompt before it is mapped back
    result_entry,       \* [presence_confidence, mask_confidence] as fractions <<n, d>>
    \* file system
    fs_files,           \* regular files: path -> content
    fs_links,           \* symbolic links that exist (paths; targets in LinkTarget)
    \* fetch_npz
    fetch_req,          \* [name, key] of the last request
    fetch_resp,         \* its response
    \* _validate_heatmap_npz
    validate_req,       \* npz_path of the last call
    validate_out,       \* [state, loaded, detail]
    \* _init_model_3d
    MODEL_3D,           \* the memoised model (Optional instance number)
    MODEL_3D_CFG,       \* the composed configuration (Optional name)
    ckpt_exists,        \* os.path.exists(ckpt_path)
    init_call,          \* caller -> [pc, model, result, calls, after_failure]
    instantiated,       \* number of hydra.utils.instantiate calls so far
    loaded,             \* instances on which load_pretrained has run
    init_failed,        \* history: some call has raised the checkpoint error
    \* POST /predict-3d-nifti and /predict-3d-dicom
    req,                \* request -> its local variables and response
    writes,             \* history: the np.savez_compressed calls made so far
    last_transform      \* history: triple returned by the latest process_input

stackVars == <<tree, dicom_files, idx, robust_slices, fallback_slices,
               reference_ipp, reference_normal, vol, stack_pc, stack_error>>

procVars == <<environ, cuda>>

batchVars == <<user_specified, sbs, batch_pc>>

confVars == <<output, threshold, endpoint, vol_mask_bin, result_entry>>

fsVars == <<fs_files, fs_links>>

fetchVars == <<fetch_req, fetch_resp>>

validateVars == <<validate_req, validate_out>>

modelVars == <<MODEL_3D, MODEL_3D_CFG, ckpt_exists, init_call, instantiated,
               loaded, init_failed>>

reqVars == <<req, writes, last_transform>>

vars == <<stackVars, procVars, batchVars, confVars, fsVars, fetchVars, validateVars,
          modelVars, reqVars>>

(***************************************************************************)
(* Python's Optional: None is the empty tuple, a value x is <<x>>.         *)
(***************************************************************************)
None == <<>>
Some(x) == <<x>>

(***************************************************************************)
(* Bounds                                                                  *)
(***************************************************************************)
MaxFiles == 3       \* files under one extraction root
MaxMemGiB == 25     \* largest device memory, in GiB
UnitsPerGiB == 2    \* device memory is counted in 1/UnitsPerGiB GiB
MaxDepth == 2       \* slices of a model output channel
VoxelsPerSlice == 2 \* voxels of one slice
MaxNameSegs == 2    \* path segments of an enumerated fetch name

(***************************************************************************)
(* Process environment and accelerator                                     *)
(***************************************************************************)
EnvKeys == {"BP_SLICE_BATCH_SIZE", "BP_SLICE_BATCH", "BP_VALIDATE_HEATMAP"}

NoDevice == [available |-> FALSE, query_ok |-> FALSE, total_memory |-> 0]

ProcIdle ==
    /\ environ = [k \in EnvKeys |-> None]
    /\ cuda = NoDevice

BatchIdle ==
    /\ user_specified = None
    /\ sbs = None
    /\ batch_pc = "idle"


NoEntry == [presence_confidence |-> <<0, 1>>, mask_confidence |-> <<0, 1>>]

ConfIdle ==
    /\ output = [mask_logits |-> <<>>, existence_logits |-> <<>>]
    /\ threshold = 0
    /\ endpoint = "none"
    /\ vol_mask_bin = <<>>
    /\ result_entry = NoEntry

NoFiles == [p \in {} |-> 0]

FsIdle ==
    /\ fs_files = NoFiles
    /\ fs_links = {}

NoResponse ==
    [status |-> 0, detail |-> <<>>, shape |-> <<>>, dtype |-> "", data_base64 |-> <<>>]

FetchIdle ==
    /\ fetch_req = [name |-> <<>>, key |-> ""]
    /\ fetch_resp = NoResponse

ValidateIdle ==
    /\ validate_req = <<>>
    /\ validate_out = [state |-> "idle", loaded |-> FALSE, detail |-> <<>>]

Callers == {"r1", "r2"}

NotCalled == [pc |-> "idle", model |-> 0, result |-> None, calls |-> 0,
              after_failure |-> FALSE]

ModelIdle ==
    /\ MODEL_3D = None
    /\ MODEL_3D_CFG = None
    /\ ckpt_exists = FALSE
    /\ init_call = [c \in Callers |-> NotCalled]
    /\ instantiated = 0
    /\ loaded = {}
    /\ init_failed = FALSE

NoReply == [status |-> 0, detail |-> <<>>, results |-> <<>>]

NoRequest ==
    [pc |-> "idle", prompts |-> <<>>, return_heatmap |-> FALSE, threshold |-> 0,
     depth |-> 0, transform |-> None, channels |-> <<>>, i |-> 0,
     vol_mask_np |-> <<>>, prob_path |-> None, inverted |-> <<>>,
     results_out |-> <<>>, failed_at |-> "", response |-> NoReply]

ReqIdle ==
    /\ req = [r \in Callers |-> NoRequest]
    /\ writes = {}
    /\ last_transform = None

(***************************************************************************)
(* The DICOM files a series is drawn from.  Vectors are integer valued.    *)
(* ext is the file name's extension, readable tells whether dcmread and    *)
(* pixel_array succeed, h/w are the first two dimensions of the pixel      *)
(* array and rest its remaining dimensions (none for a grayscale frame,    *)
(* <<3>> for an RGB frame).                                                *)
(***************************************************************************)
Axial    == <<1, 0, 0, 0, 1, 0>>     \* row x col = (0,0,1)
Flipped  == <<1, 0, 0, 0, -1, 0>>    \* row x col = (0,0,-1)
Sagittal == <<0, 1, 0, 0, 0, 1>>     \* row x col = (1,0,0)

Ds(ext, readable, ipp, iop, sl, ins, h, w, rest) ==
    [ext |-> ext, readable |-> readable, ipp |-> ipp, iop |-> iop,
     sl |-> sl, ins |-> ins, h |-> h, w |-> w, rest |-> rest]

SliceCatalogue ==
    << Ds(".dcm",   TRUE,  Some(<<0, 0, 0>>), Some(Axial),    None,    Some(3), 2, 2, <<>>),
       Ds(".dcm",   TRUE,  Some(<<0, 0, 1>>), Some(Axial),    None,    Some(2), 2, 2, <<>>),
       Ds(".DCM",   TRUE,  Some(<<0, 0, 2>>), Some(Axial),    None,    Some(1), 2, 3, <<>>),
       Ds(".dcm",   TRUE,  Some(<<0, 0, 0>>), Some(Axial),    None,    None,    2, 2, <<>>),
       Ds(".dcm",   TRUE,  Some(<<0, 0, 0>>), Some(Flipped),  None,    None,    2, 2, <<>>),
       Ds(".dicom", TRUE,  Some(<<0, 0, 1>>), Some(Flipped),  None,    None,    2, 2, <<>>),
       Ds(".dcm",   TRUE,  Some(<<0, 0, 2>>), Some(Flipped),  None,    None,    2, 2, <<>>),
       Ds(".dcm",   TRUE,  Some(<<1, 0, 1>>), Some(Sagittal), None,    None,    3, 2, <<>>),
       Ds(".dcm",   TRUE,  None,              None,           Some(5), Some(1), 2, 2, <<>>),
       Ds(".dcm",   TRUE,  None,              Some(Axial),    None,    Some(2), 2, 2, <<>>),
       Ds(".Dicom", TRUE,  None,              None,           None,    None,    2, 2, <<>>),
       Ds(".dcm",   TRUE,  Some(<<0, 0>>),    Some(Axial),    Some(0), Some(7), 2, 2, <<>>),
       Ds(".dcm",   FALSE, None,              None,           None,    None,    0, 0, <<>>),
       Ds(".txt",   TRUE,  Some(<<0, 0, 1>>), Some(Axial),    None,    None,    2, 2, <<>>),
       Ds(".dcm",   TRUE,  Some(<<0, 0, 1>>), Some(Axial),    None,    Some(2), 2, 2, <<3>>) >>

SliceIds == 1..Len(SliceCatalogue)

(***************************************************************************)
(* str.lower() on the extensions that occur, and the endswith filter of    *)
(* the directory walk.                                                     *)
(***************************************************************************)
Lower(ext) ==
    CASE ext \in {".dcm", ".DCM", ".Dcm"}         -> ".dcm"
      [] ext \in {".dicom", ".DICOM", ".Dicom"}   -> ".dicom"
      [] OTHER                                    -> ext

IsDicomName(id) == Lower(SliceCatalogue[id].ext) \in {".dcm", ".dicom"}

(***************************************************************************)
(* numpy vector helpers                                                    *)
(***************************************************************************)
Dot(a, b) == a[1] * b[1] + a[2] * b[2] + a[3] * b[3]

Minus(a, b) == <<a[1] - b[1], a[2] - b[2], a[3] - b[3]>>

CrossSwapped(a, b) ==
    << b[2] * a[3] - b[3] * a[2],
       b[3] * a[1] - b[1] * a[3],
       b[1] * a[2] - b[2] * a[1] >>

Cross(a, b) ==
    << a[2] * b[3] - a[3] * b[2],
       a[3] * b[1] - a[1] * b[3],
       a[1] * b[2] - a[2] * b[1] >>

(***************************************************************************)
(* The test that sends a slice to robust_slices (line 466).                *)
(***************************************************************************)
HasGeometry(ds) ==
    /\ ds.ipp # None
    /\ ds.iop # None
    /\ Len(ds.ipp[1]) = 3
    /\ Len(ds.iop[1]) = 6

(***************************************************************************)
(* The order key of a slice without usable geometry (lines 479-484):       *)
(* "is not None" tests, so a slice location of 0 is a present value.       *)
(***************************************************************************)
FallbackKeyTruthy(ds) ==
    IF ds.sl # None /\ ds.sl[1] # 0 THEN ds.sl[1]
    ELSE IF ds.ins # None /\ ds.ins[1] # 0 THEN ds.ins[1]
    ELSE 0

FallbackKey(ds) ==
    IF ds.sl # None THEN ds.sl[1]
    ELSE IF ds.ins # None THEN ds.ins[1]
    ELSE 0

(***************************************************************************)
(* One iteration of the loop over dicom_files (lines 453-487), on the      *)
(* accumulator acc = [robust, fallback, ref_ipp, ref_normal].              *)
(***************************************************************************)
LoopBody(acc, id) ==
    LET ds == SliceCatalogue[id] IN
    IF ~ds.readable THEN acc           \* except Exception: continue
    ELSE IF HasGeometry(ds) THEN
        LET ipp_vec == ds.ipp[1]
            row     == SubSeq(ds.iop[1], 1, 3)
            col     == SubSeq(ds.iop[1], 4, 6)
            normal  == Cross(row, col)
            first   == acc.ref_ipp = None
            new_ipp == IF first THEN Some(ipp_vec) ELSE acc.ref_ipp
            new_nrm == IF first THEN Some(normal) ELSE acc.ref_normal
            ref_n   == IF new_nrm # None THEN new_nrm[1] ELSE normal
            ref_ipp == IF new_ipp # None THEN new_ipp[1] ELSE ipp_vec
            dist    == Dot(Minus(ipp_vec, ref_ipp), ref_n)
        IN  [acc EXCEPT !.robust = Append(@, <<dist, id>>),
                        !.ref_ipp = new_ipp,
                        !.ref_normal = new_nrm]
    ELSE
        LET key == FallbackKey(ds)
        IN  [acc EXCEPT !.fallback = Append(@, <<key, id>>)]

(***************************************************************************)
(* list.sort(key=lambda x: x[0]): ascending and stable.                    *)
(***************************************************************************)
RECURSIVE InsertByKeyUnstable(_, _)
InsertByKeyUnstable(sorted, x) ==
    IF sorted = <<>> THEN <<x>>
    ELSE IF sorted[Len(sorted)][1] < x[1] THEN Append(sorted, x)
    ELSE Append(InsertByKeyUnstable(SubSeq(sorted, 1, Len(sorted) - 1), x),
                sorted[Len(sorted)])

RECURSIVE InsertByKey(_, _)
InsertByKey(sorted, x) ==
    IF sorted = <<>> THEN <<x>>
    ELSE IF sorted[Len(sorted)][1] <= x[1] THEN Append(sorted, x)
    ELSE Append(InsertByKey(SubSeq(sorted, 1, Len(sorted) - 1), x),
                sorted[Len(sorted)])

SortByKeySkipped(s) == s

RECURSIVE SortByKey(_)
SortByKey(s) ==
    IF s = <<>> THEN <<>>
    ELSE InsertByKey(SortByKey(SubSeq(s, 1, Len(s) - 1)), s[Len(s)])

Arrays(s) == [i \in 1..Len(s) |-> s[i][2]]

(***************************************************************************)
(* Lines 492-498: the sorted robust slices, then the sorted fallback       *)
(* slices.                                                                 *)
(***************************************************************************)
ConcatenateFallbackFirst(robust, fallback) ==
    (IF fallback # <<>> THEN Arrays(SortByKey(fallback)) ELSE <<>>)
    \o (IF robust # <<>> THEN Arrays(SortByKey(robust)) ELSE <<>>)

Concatenate(robust, fallback) ==
    (IF robust # <<>> THEN Arrays(SortByKey(robust)) ELSE <<>>)
    \o (IF fallback # <<>> THEN Arrays(SortByKey(fallback)) ELSE <<>>)

Min(S) == CHOOSE m \in S : \A x \in S : m <= x

Height(id) == SliceCatalogue[id].h
Width(id) == SliceCatalogue[id].w

NoDicomFound == "No DICOM files found in archive"
EmptySeries  == "DICOM files present but none readable"
StackShape   == "all input arrays must have the same shape"

(***************************************************************************)
(* Lines 500-505: crop to the minimum height and width, then stack.        *)
(* a[:h, :w] leaves the remaining dimensions as they are, and np.stack     *)
(* raises ValueError unless every cropped array has the same shape.        *)
(***************************************************************************)
Rest(id) == SliceCatalogue[id].rest

SameShape(arrays) ==
    \A i, j \in 1..Len(arrays) : Rest(arrays[i]) = Rest(arrays[j])

\* The pixel coordinates a[:h, :w] keeps of an array.
Region(h, w) == (0..(h - 1)) \X (0..(w - 1))

Clip(id, h, w) ==
    [array |-> id,
     kept |-> Region(Min({h, Height(id)}), Min({w, Width(id)}))]

Stack(arrays) ==
    LET h == Min({Height(arrays[i]) : i \in 1..Len(arrays)})
        w == Min({Width(arrays[i]) : i \in 1..Len(arrays)})
    IN  [slices |-> arrays,
         h |-> h,
         w |-> w,
         arrays_clipped |-> [i \in 1..Len(arrays) |-> Clip(arrays[i], h, w)],
         shape |-> <<Len(arrays), h, w>> \o Rest(arrays[1])]

NoVolume == [slices |-> <<>>, h |-> 0, w |-> 0, arrays_clipped |-> <<>>, shape |-> <<>>]

EmptyAcc == [robust |-> <<>>, fallback |-> <<>>, ref_ipp |-> None, ref_normal |-> None]

(***************************************************************************)
(* The whole loop and the stacking order it leads to, as a function of     *)
(* the discovery order.                                                    *)
(***************************************************************************)
RECURSIVE RunLoop(_, _)
RunLoop(acc, fs) ==
    IF fs = <<>> THEN acc
    ELSE RunLoop(LoopBody(acc, Head(fs)), Tail(fs))

StackOrder(fs) ==
    LET acc == RunLoop(EmptyAcc, fs) IN Concatenate(acc.robust, acc.fallback)

(***************************************************************************)
(* Orders in which a set of ids may be listed.                             *)
(***************************************************************************)
Orderings(S) ==
    {f \in [1..Cardinality(S) -> S] : \A i, j \in 1..Cardinality(S) : i # j => f[i] # f[j]}

StackIdle ==
    /\ tree = {}
    /\ dicom_files = <<>>
    /\ idx = 0
    /\ robust_slices = <<>>
    /\ fallback_slices = <<>>
    /\ reference_ipp = None
    /\ reference_normal = None
    /\ vol = NoVolume
    /\ stack_pc = "idle"
    /\ stack_error = ""

InitStack ==
    /\ ReqIdle
    /\ ModelIdle
    /\ ProcIdle
    /\ BatchIdle
    /\ ConfIdle
    /\ FsIdle
    /\ FetchIdle
    /\ ValidateIdle
    /\ tree \in {S \in SUBSET SliceIds : Cardinality(S) <= MaxFiles}
    /\ dicom_files = <<>>
    /\ idx = 0
    /\ robust_slices = <<>>
    /\ fallback_slices = <<>>
    /\ reference_ipp = None
    /\ reference_normal = None
    /\ vol = NoVolume
    /\ stack_pc = "walk"
    /\ stack_error = ""

\* Lines 440-446: os.walk lists the candidates in a file-system order.
Walk ==
    /\ stack_pc = "walk"
    /\ \E order \in Orderings({id \in tree : IsDicomName(id)}) :
          /\ dicom_files' = order
          /\ stack_pc' = IF order = <<>> THEN "raised" ELSE "read"
          /\ stack_error' = IF order = <<>> THEN NoDicomFound ELSE ""
    /\ idx' = 1
    /\ UNCHANGED <<tree, robust_slices, fallback_slices, reference_ipp,
                   reference_normal, vol>>
    /\ UNCHANGED <<procVars, batchVars, confVars, fsVars, fetchVars, validateVars>>
    /\ UNCHANGED <<modelVars, reqVars>>

\* Lines 453-487: one file of the loop.
ReadSlice ==
    /\ stack_pc = "read"
    /\ idx <= Len(dicom_files)
    /\ LET acc == LoopBody([robust |-> robust_slices, fallback |-> fallback_slices,
                            ref_ipp |-> reference_ipp, ref_normal |-> reference_normal],
                           dicom_files[idx])
       IN  /\ robust_slices' = acc.robust
           /\ fallback_slices' = acc.fallback
           /\ reference_ipp' = acc.ref_ipp
           /\ reference_normal' = acc.ref_normal
    /\ idx' = idx + 1
    /\ stack_pc' = IF idx = Len(dicom_files) THEN "sort" ELSE "read"
    /\ UNCHANGED <<tree, dicom_files, vol, stack_error>>
    /\ UNCHANGED <<procVars, batchVars, confVars, fsVars, fetchVars, validateVars>>
    /\ UNCHANGED <<modelVars, reqVars>>

\* Lines 489-505: sort both groups, concatenate, crop and stack.
SortAndStack ==
    /\ stack_pc = "sort"
    /\ LET arrays == Concatenate(robust_slices, fallback_slices) IN
       IF robust_slices = <<>> /\ fallback_slices = <<>>
       THEN /\ stack_pc' = "raised"
            /\ stack_error' = EmptySeries
            /\ vol' = vol
       ELSE IF ~SameShape(arrays)
       THEN /\ stack_pc' = "raised"
            /\ stack_error' = StackShape
            /\ vol' = vol
       ELSE /\ stack_pc' = "done"
            /\ stack_error' = ""
            /\ vol' = Stack(arrays)
    /\ robust_slices' = SortByKey(robust_slices)
    /\ fallback_slices' = SortByKey(fallback_slices)
    /\ UNCHANGED <<tree, dicom_files, idx, reference_ipp, reference_normal>>
    /\ UNCHANGED <<procVars, batchVars, confVars, fsVars, fetchVars, validateVars>>
    /\ UNCHANGED <<modelVars, reqVars>>

NextStack == Walk \/ ReadSlice \/ SortAndStack

SpecStack == InitStack /\ [][NextStack]_vars

(***************************************************************************)
(* Properties of the series stacking                                       *)
(***************************************************************************)
Range(s) == {s[i] : i \in 1..Len(s)}

Readable(id) == SliceCatalogue[id].readable

Resolvable(id) == Readable(id) /\ HasGeometry(SliceCatalogue[id])

\* Z component of row x column of a slice's orientation.
NormalZ(id) ==
    LET o == SliceCatalogue[id].iop[1] IN o[1] * o[5] - o[2] * o[4]

Position(id) == SliceCatalogue[id].ipp[1]

\* C1: when every discovered slice is readable and carries a 3-vector
\* position and a 6-vector orientation, the stacking order of the returned
\* volume is the same for every order in which the same files could have
\* been discovered.
C1_OrderIndependentOfDiscovery ==
    (stack_pc = "done" /\ \A id \in Range(dicom_files) : Resolvable(id))
        => \A other \in Orderings(Range(dicom_files)) :
              StackOrder(other) = vol.slices

\* A series of three slices at (0,0,0), (0,0,1), (0,0,2) that share one
\* orientation.
IsZSeries(S) ==
    /\ Cardinality(S) = 3
    /\ \A id \in S : Resolvable(id)
    /\ {Position(id) : id \in S} = {<<0, 0, 0>>, <<0, 0, 1>>, <<0, 0, 2>>}
    /\ \A a, b \in S : SliceCatalogue[a].iop = SliceCatalogue[b].iop

AscendingZ(slices) ==
    [i \in 1..Len(slices) |-> Position(slices[i])[3]] = <<0, 1, 2>>

\* C2 as stated: the three-slice Z series is stacked in ascending Z whatever
\* the shared orientation is.
C2_AscendingZAnyOrientation ==
    (stack_pc = "done" /\ IsZSeries(Range(dicom_files)))
        => AscendingZ(vol.slices)

\* C2 (amended): the three-slice Z series whose shared orientation has a
\* normal (row x col) with a positive Z component is stacked in ascending Z
\* for every discovery order.
C2_AscendingZPositiveNormal ==
    (/\ stack_pc = "done"
     /\ IsZSeries(Range(dicom_files))
     /\ \A id \in Range(dicom_files) : NormalZ(id) > 0)
        => AscendingZ(vol.slices)

\* The Z series was discovered top slice first and came out ascending.
C2_Witness ==
    /\ stack_pc = "done"
    /\ IsZSeries(Range(dicom_files))
    /\ \A id \in Range(dicom_files) : NormalZ(id) > 0
    /\ Position(dicom_files[1])[3] = 2
    /\ Position(dicom_files[3])[3] = 0
    /\ AscendingZ(vol.slices)

Candidates == {id \in tree : IsDicomName(id)}

Parsed == {id \in Candidates : Readable(id)}

\* C15: stacking fails with "no DICOM found" exactly when the walk finds no
\* candidate, fails with "none readable" exactly when candidates exist and
\* every parse failed, fails in no other way, and a returned volume has at
\* least one slice.
C15_OnlyTwoFailures ==
    /\ stack_pc = "raised" =>
          \/ stack_error = NoDicomFound /\ Candidates = {}
          \/ stack_error = EmptySeries /\ Candidates # {} /\ Parsed = {}
    /\ (stack_pc \in {"done", "raised"} /\ Candidates = {}) =>
          (stack_pc = "raised" /\ stack_error = NoDicomFound)
    /\ (stack_pc \in {"done", "raised"} /\ Candidates # {} /\ Parsed = {}) =>
          (stack_pc = "raised" /\ stack_error = EmptySeries)
    /\ stack_pc = "done" => Len(vol.slices) >= 1

\* C16: when at least one candidate parses, the function returns a volume
\* whose slices are exactly the candidates that parsed, one slice each,
\* whatever number of other candidates failed to parse.
C16_DepthIsParsedCount ==
    (stack_pc \in {"done", "raised"} /\ Parsed # {}) =>
        /\ stack_pc = "done"
        /\ Len(vol.slices) = Cardinality(Parsed)
        /\ Range(vol.slices) = Parsed

\* C3: in the returned volume every geometry-resolvable slice comes before
\* every fallback slice.
C3_ResolvableBeforeFallback ==
    stack_pc = "done" =>
        \A i, j \in 1..Len(vol.slices) :
            (Resolvable(vol.slices[i]) /\ ~Resolvable(vol.slices[j])) => i < j

\* A mixed series in which a fallback slice was discovered first.
C3_Witness ==
    /\ stack_pc = "done"
    /\ Len(vol.slices) = 3
    /\ ~Resolvable(dicom_files[1])
    /\ Resolvable(dicom_files[2])
    /\ ~Resolvable(dicom_files[3])
    /\ Resolvable(vol.slices[1])

(***************************************************************************)
(* Strings are tuples of characters.  int(val) on a string: surrounding    *)
(* blanks are stripped, an optional sign is followed by one or more        *)
(* decimal digits; anything else raises ValueError (None here).            *)
(***************************************************************************)
DigitChars == {"0", "1", "2", "3", "4", "5", "6", "7", "8", "9"}

DigitValue(c) ==
    CASE c = "0" -> 0 [] c = "1" -> 1 [] c = "2" -> 2 [] c = "3" -> 3
      [] c = "4" -> 4 [] c = "5" -> 5 [] c = "6" -> 6 [] c = "7" -> 7
      [] c = "8" -> 8 [] c = "9" -> 9

RECURSIVE LStrip(_)
LStrip(s) == IF s # <<>> /\ Head(s) = " " THEN LStrip(Tail(s)) ELSE s

RECURSIVE RStrip(_)
RStrip(s) ==
    IF s # <<>> /\ s[Len(s)] = " " THEN RStrip(SubSeq(s, 1, Len(s) - 1)) ELSE s

RECURSIVE ToNumber(_)
ToNumber(digits) ==
    IF digits = <<>> THEN 0
    ELSE 10 * ToNumber(SubSeq(digits, 1, Len(digits) - 1))
         + DigitValue(digits[Len(digits)])

ParseInt(s) ==
    LET t      == RStrip(LStrip(s))
        signed == t # <<>> /\ t[1] \in {"+", "-"}
        body   == IF signed THEN Tail(t) ELSE t
    IN  IF body = <<>> \/ \E i \in 1..Len(body) : body[i] \notin DigitChars
        THEN None
        ELSE Some(IF signed /\ t[1] = "-" THEN 0 - ToNumber(body) ELSE ToNumber(body))

(***************************************************************************)
(* _get_configured_slice_batch_size (lines 96-106)                         *)
(***************************************************************************)
BatchKeys == <<"BP_SLICE_BATCH_SIZE", "BP_SLICE_BATCH">>

RECURSIVE ConfiguredFrom(_, _)
ConfiguredFrom(env, keys) ==
    IF keys = <<>> THEN None
    ELSE LET val == env[Head(keys)]
             n   == ParseInt(val[1])
         IN  IF val # None /\ val[1] # <<>> /\ n # None /\ n[1] > 0
             THEN n
             ELSE ConfiguredFrom(env, Tail(keys))

\* The loop gives up after the first variable that is set.
get_configured_first_set_only(env) ==
    LET val == env[BatchKeys[1]] IN
    IF val # None /\ val[1] # <<>>
    THEN LET n == ParseInt(val[1]) IN IF n # None /\ n[1] > 0 THEN n ELSE None
    ELSE ConfiguredFrom(env, Tail(BatchKeys))

get_configured_slice_batch_size(env) == ConfiguredFrom(env, BatchKeys)

(***************************************************************************)
(* _auto_slice_batch_size (lines 109-127).  total_mem_gb < k is compared   *)
(* on the memory counted in units of 1/UnitsPerGiB GiB.                    *)
(***************************************************************************)
auto_boundary_in_lower_tier(dev) ==
    IF ~dev.available THEN 1
    ELSE IF ~dev.query_ok THEN 2
    ELSE IF dev.total_memory < 6 * UnitsPerGiB THEN 1
    ELSE IF dev.total_memory < 8 * UnitsPerGiB THEN 2
    ELSE IF dev.total_memory <= 12 * UnitsPerGiB THEN 3
    ELSE IF dev.total_memory < 16 * UnitsPerGiB THEN 4
    ELSE IF dev.total_memory < 24 * UnitsPerGiB THEN 6
    ELSE 8

auto_slice_batch_size(dev) ==
    IF ~dev.available THEN 1
    ELSE IF ~dev.query_ok THEN 2           \* except Exception: return 2
    ELSE IF dev.total_memory < 6 * UnitsPerGiB THEN 1
    ELSE IF dev.total_memory < 8 * UnitsPerGiB THEN 2
    ELSE IF dev.total_memory < 12 * UnitsPerGiB THEN 3
    ELSE IF dev.total_memory < 16 * UnitsPerGiB THEN 4
    ELSE IF dev.total_memory < 24 * UnitsPerGiB THEN 6
    ELSE 8

(***************************************************************************)
(* _effective_slice_batch_size (lines 130-136)                             *)
(***************************************************************************)
effective_env_before_argument(user, env, dev) ==
    LET env_set == get_configured_slice_batch_size(env) IN
    IF env_set # None /\ env_set[1] # 0 THEN env_set[1]
    ELSE IF user # None /\ user[1] # 0 /\ user[1] > 0 THEN user[1]
    ELSE auto_slice_batch_size(dev)

effective_slice_batch_size(user, env, dev) ==
    IF user # None /\ user[1] # 0 /\ user[1] > 0 THEN user[1]
    ELSE LET env_set == get_configured_slice_batch_size(env) IN
         IF env_set # None /\ env_set[1] # 0 THEN env_set[1]
         ELSE auto_slice_batch_size(dev)

(***************************************************************************)
(* Inputs of the batch size resolution                                     *)
(***************************************************************************)
BatchEnvValues ==
    { None, Some(<<>>), Some(<<"a", "b">>), Some(<<"0">>), Some(<<"-", "2">>),
      Some(<<"3">>), Some(<<"7">>), Some(<<"1", "2">>), Some(<<"3", ".", "5">>),
      Some(<<" ", "4">>) }

UserArgs == {None, Some(0 - 1), Some(0), Some(1), Some(5)}

Devices ==
    {NoDevice, [available |-> TRUE, query_ok |-> FALSE, total_memory |-> 0]}
    \cup {[available |-> TRUE, query_ok |-> TRUE, total_memory |-> m] :
             m \in 0..(MaxMemGiB * UnitsPerGiB)}

InitBatch ==
    /\ ReqIdle
    /\ ModelIdle
    /\ StackIdle
    /\ ConfIdle
    /\ FsIdle
    /\ FetchIdle
    /\ ValidateIdle
    /\ environ \in {e \in [EnvKeys -> BatchEnvValues] : e["BP_VALIDATE_HEATMAP"] = None}
    /\ cuda \in Devices
    /\ user_specified = None
    /\ sbs = None
    /\ batch_pc = "ready"

\* One call of _effective_slice_batch_size by a request.
EffectiveSliceBatchSize ==
    /\ batch_pc \in {"ready", "called"}
    /\ \E u \in UserArgs :
          /\ user_specified' = u
          /\ sbs' = Some(effective_slice_batch_size(u, environ, cuda))
    /\ batch_pc' = "called"
    /\ UNCHANGED <<stackVars, procVars, confVars, fsVars, fetchVars, validateVars>>
    /\ UNCHANGED <<modelVars, reqVars>>

NextBatch == EffectiveSliceBatchSize

SpecBatch == InitBatch /\ [][NextBatch]_vars

(***************************************************************************)
(* Properties of the batch size resolution                                 *)
(***************************************************************************)
UserPositive == user_specified # None /\ user_specified[1] > 0

\* An override that is absent, empty, not an integer, or not positive.
Ignored(v) ==
    \/ v = None
    \/ v[1] = <<>>
    \/ ParseInt(v[1]) = None
    \/ ParseInt(v[1])[1] <= 0

EnvPositives ==
    {ParseInt(environ[BatchKeys[i]][1])[1] :
        i \in {j \in 1..Len(BatchKeys) : ~Ignored(environ[BatchKeys[j]])}}

\* C4: a positive argument is the result whatever the environment and the
\* device are; otherwise a positive integer held by an environment override
\* is the result whatever the device is; only when neither applies the
\* result is the memory heuristic.
C4_StrictPriority ==
    batch_pc = "called" =>
        /\ UserPositive => sbs = user_specified
        /\ (~UserPositive /\ EnvPositives # {}) => sbs[1] \in EnvPositives
        /\ (~UserPositive /\ EnvPositives = {}) => sbs = Some(auto_slice_batch_size(cuda))

\* A positive argument wins over a positive override on a large device.
C4_Witness ==
    /\ batch_pc = "called"
    /\ user_specified = Some(5)
    /\ environ["BP_SLICE_BATCH_SIZE"] = Some(<<"3">>)
    /\ cuda.available /\ cuda.query_ok /\ cuda.total_memory = 24 * UnitsPerGiB
    /\ sbs = Some(5)

\* C5: ignored overrides fall through: a missing or non-positive argument
\* falls through to the environment, where BP_SLICE_BATCH_SIZE is consulted
\* before BP_SLICE_BATCH and an ignored first value does not hide a valid
\* second one; with both ignored the heuristic is used.  The result is
\* always a positive integer.
C5_FallThrough ==
    batch_pc = "called" =>
        /\ sbs # None
        /\ sbs[1] > 0
        /\ ~UserPositive =>
             IF ~Ignored(environ["BP_SLICE_BATCH_SIZE"])
             THEN sbs = ParseInt(environ["BP_SLICE_BATCH_SIZE"][1])
             ELSE IF ~Ignored(environ["BP_SLICE_BATCH"])
             THEN sbs = ParseInt(environ["BP_SLICE_BATCH"][1])
             ELSE sbs = Some(auto_slice_batch_size(cuda))

\* A zero argument and a negative first override fall through to the
\* second override.
C5_Witness ==
    /\ batch_pc = "called"
    /\ user_specified = Some(0)
    /\ environ["BP_SLICE_BATCH_SIZE"] = Some(<<"-", "2">>)
    /\ environ["BP_SLICE_BATCH"] = Some(<<"7">>)
    /\ sbs = Some(7)

FellThrough ==
    /\ batch_pc = "called"
    /\ ~UserPositive
    /\ EnvPositives = {}

\* C6: the heuristic gives 1 without accelerator, 2 when the memory cannot
\* be queried, and otherwise 1, 2, 3, 4, 6, 8 for M < 6, 6 <= M < 8,
\* 8 <= M < 12, 12 <= M < 16, 16 <= M < 24, M >= 24 GiB; it is always in
\* {1,2,3,4,6,8} and non-decreasing in M.
C6_MemoryTiers ==
    FellThrough =>
        LET M == cuda.total_memory
            G == UnitsPerGiB
        IN  /\ sbs[1] \in {1, 2, 3, 4, 6, 8}
            /\ ~cuda.available => sbs[1] = 1
            /\ (cuda.available /\ ~cuda.query_ok) => sbs[1] = 2
            /\ (cuda.available /\ cuda.query_ok) =>
                  /\ M < 6 * G => sbs[1] = 1
                  /\ (6 * G <= M /\ M < 8 * G) => sbs[1] = 2
                  /\ (8 * G <= M /\ M < 12 * G) => sbs[1] = 3
                  /\ (12 * G <= M /\ M < 16 * G) => sbs[1] = 4
                  /\ (16 * G <= M /\ M < 24 * G) => sbs[1] = 6
                  /\ M >= 24 * G => sbs[1] = 8
                  /\ \A m \in 0..M :
                        auto_slice_batch_size([cuda EXCEPT !.total_memory = m]) <= sbs[1]

\* The heuristic was used on a device of exactly 12 GiB.
C6_Witness ==
    /\ FellThrough
    /\ cuda.available /\ cuda.query_ok
    /\ cuda.total_memory = 12 * UnitsPerGiB
    /\ sbs = Some(4)


(***************************************************************************)
(* Per-prompt confidences (lines 335-369 and 538-563).  Probabilities and  *)
(* the threshold are multiples of 1/ProbScale; a confidence is a fraction  *)
(* <<n, d>> in lowest terms.                                               *)
(***************************************************************************)
\* The grid of logits, symmetric around 0.
Logits == {0 - 1, 0, 1}

LogitMax == CHOOSE m \in Logits : \A x \in Logits : x <= m

ProbScale == 2 * LogitMax

\* torch.sigmoid on the logit grid: increasing, 1/2 at 0, saturating at the
\* ends of the float range to 0 and 1.
Sigmoid(x) == x + LogitMax

RECURSIVE GCD(_, _)
GCD(a, b) == IF b = 0 THEN a ELSE GCD(b, a % b)

Fraction(n, d) == LET g == GCD(n, d) IN <<n \div g, d \div g>>

Zero == <<0, 1>>

RECURSIVE SumSeq(_)
SumSeq(s) == IF s = <<>> THEN 0 ELSE Head(s) + SumSeq(Tail(s))

RECURSIVE Flatten(_)
Flatten(m) == IF m = <<>> THEN <<>> ELSE Head(m) \o Flatten(Tail(m))

MaxSeq(s) == CHOOSE m \in {s[i] : i \in 1..Len(s)} : \A i \in 1..Len(s) : s[i] <= m

\* mask_preds.sigmoid(), object_existence.sigmoid()
MaskProbs(out) ==
    [d \in 1..Len(out.mask_logits) |->
        [v \in 1..Len(out.mask_logits[d]) |-> Sigmoid(out.mask_logits[d][v])]]

ExistenceProbs(out) ==
    [d \in 1..Len(out.existence_logits) |-> Sigmoid(out.existence_logits[d])]

GateNonStrict(probs_i, exist_i, th) ==
    [d \in 1..Len(probs_i) |->
        [v \in 1..Len(probs_i[d]) |->
            probs_i[d][v] * (IF exist_i[d] >= th THEN 1 ELSE 0)]]

\* keep = (exist_i > threshold).float(); gated = probs_i * keep
Gate(probs_i, exist_i, th) ==
    [d \in 1..Len(probs_i) |->
        [v \in 1..Len(probs_i[d]) |->
            probs_i[d][v] * (IF exist_i[d] > th THEN 1 ELSE 0)]]

BinarizeNonStrict(gated, th) ==
    [d \in 1..Len(gated) |->
        [v \in 1..Len(gated[d]) |-> IF gated[d][v] >= th THEN 1 ELSE 0]]

\* (gated > threshold).int()
Binarize(gated, th) ==
    [d \in 1..Len(gated) |->
        [v \in 1..Len(gated[d]) |-> IF gated[d][v] > th THEN 1 ELSE 0]]

MaskedSum(values, mask) ==
    LET vs == Flatten(values)
        ms == Flatten(mask)
        picked == [i \in 1..Len(vs) |-> IF ms[i] > 0 THEN vs[i] ELSE 0]
    IN  IF \E i \in 1..Len(ms) : ms[i] > 0
        THEN Fraction(SumSeq(picked), ProbScale)
        ELSE Zero

\* float(values[mask > 0].mean()) if (mask > 0).any() else 0.0
MaskedMean(values, mask) ==
    LET vs == Flatten(values)
        ms == Flatten(mask)
        picked == [i \in 1..Len(vs) |-> IF ms[i] > 0 THEN vs[i] ELSE 0]
        count  == Cardinality({i \in 1..Len(ms) : ms[i] > 0})
    IN  IF \E i \in 1..Len(ms) : ms[i] > 0
        THEN Fraction(SumSeq(picked), count * ProbScale)
        ELSE Zero

MinSeq(s) == CHOOSE m \in {s[i] : i \in 1..Len(s)} : \A i \in 1..Len(s) : m <= s[i]

PresenceConfMin(exist_i) == Fraction(MinSeq(exist_i), ProbScale)

\* presence_conf = float(exist_i.max().item())
PresenceConf(exist_i) == Fraction(MaxSeq(exist_i), ProbScale)

\* _infer_3d_nifti, lines 345-354: the binary mask handed to process_output
nifti_mask(out, th) ==
    Binarize(Gate(MaskProbs(out), ExistenceProbs(out), th), th)

\* _infer_3d_dicom_zip, lines 545-550
dicom_mask(out, th) ==
    Binarize(Gate(MaskProbs(out), ExistenceProbs(out), th), th)

\* _infer_3d_nifti, lines 345-369
nifti_entry(out, th) ==
    LET probs_i       == MaskProbs(out)
        exist_i       == ExistenceProbs(out)
        gated         == Gate(probs_i, exist_i, th)
        vol_mask_prob == gated
        mask_bin  == Binarize(vol_mask_prob, th)
    IN  [presence_confidence |-> PresenceConf(exist_i),
         mask_confidence |-> MaskedMean(vol_mask_prob, mask_bin)]

\* _infer_3d_dicom_zip, lines 545-563
dicom_entry(out, th) ==
    LET probs_i      == MaskProbs(out)
        exist_i      == ExistenceProbs(out)
        gated        == Gate(probs_i, exist_i, th)
        mask_bin == Binarize(gated, th)
    IN  [presence_confidence |-> PresenceConf(exist_i),
         mask_confidence |-> MaskedMean(gated, mask_bin)]

\* The voxels of a slice are listed in non-decreasing order: no step of the
\* post-processing depends on where in its slice a voxel lies.
SliceLogits ==
    {r \in [1..VoxelsPerSlice -> Logits] :
        \A v \in 1..(VoxelsPerSlice - 1) : r[v] <= r[v + 1]}

Outputs ==
    UNION {[mask_logits : [1..D -> SliceLogits],
            existence_logits : [1..D -> Logits]] : D \in 1..MaxDepth}

\* The query parameter is not range checked: below 0 and above 1 included.
Thresholds == (0 - 1)..(ProbScale + 1)

InitConf ==
    /\ ReqIdle
    /\ ModelIdle
    /\ StackIdle
    /\ ProcIdle
    /\ BatchIdle
    /\ FsIdle
    /\ FetchIdle
    /\ ValidateIdle
    /\ output \in Outputs
    /\ threshold \in Thresholds
    /\ endpoint = "none"
    /\ vol_mask_bin = <<>>
    /\ result_entry = NoEntry

\* _infer_3d_nifti builds the result entry of the prompt.
InferNifti ==
    /\ endpoint = "none"
    /\ endpoint' = "nifti"
    /\ vol_mask_bin' = nifti_mask(output, threshold)
    /\ result_entry' = nifti_entry(output, threshold)
    /\ UNCHANGED <<stackVars, procVars, batchVars, output, threshold>>
    /\ UNCHANGED <<fsVars, fetchVars, validateVars>>
    /\ UNCHANGED <<modelVars, reqVars>>

\* _infer_3d_dicom_zip builds the result entry of the prompt.
InferDicom ==
    /\ endpoint = "none"
    /\ endpoint' = "dicom"
    /\ vol_mask_bin' = dicom_mask(output, threshold)
    /\ result_entry' = dicom_entry(output, threshold)
    /\ UNCHANGED <<stackVars, procVars, batchVars, output, threshold>>
    /\ UNCHANGED <<fsVars, fetchVars, validateVars>>
    /\ UNCHANGED <<modelVars, reqVars>>

NextConf == InferNifti \/ InferDicom

SpecConf == InitConf /\ [][NextConf]_vars

(***************************************************************************)
(* Properties of the confidences                                           *)
(***************************************************************************)
Voxels == {<<d, v>> : d \in 1..Len(output.mask_logits), v \in 1..VoxelsPerSlice}

\* Existence-gated probability of a voxel, in units of 1/ProbScale.
GatedProb(x) ==
    IF output.existence_logits[x[1]] + LogitMax > threshold
    THEN output.mask_logits[x[1]][x[2]] + LogitMax
    ELSE 0

Exceeding == {x \in Voxels : GatedProb(x) > threshold}

RECURSIVE SumGated(_)
SumGated(S) ==
    IF S = {} THEN 0
    ELSE LET x == CHOOSE y \in S : TRUE IN GatedProb(x) + SumGated(S \ {x})

\* a/b = c/d for fractions with positive denominators
FracEq(f, n, d) == f[1] * d = n * f[2]

\* C7: mask_confidence is exactly 0.0 when no voxel of the gated probability
\* volume exceeds the threshold, otherwise the mean of the gated
\* probabilities over exactly the voxels that exceed it; both endpoints
\* compute the same value for the same model output.
C7_MaskConfidenceIsForegroundMean ==
    endpoint # "none" =>
        /\ Exceeding = {} => result_entry.mask_confidence = <<0, 1>>
        /\ Exceeding # {} =>
              FracEq(result_entry.mask_confidence,
                     SumGated(Exceeding), Cardinality(Exceeding) * ProbScale)
        /\ nifti_entry(output, threshold).mask_confidence
               = dicom_entry(output, threshold).mask_confidence

\* One voxel sits exactly on the threshold and another one above it.
C7_Witness ==
    /\ endpoint = "dicom"
    /\ \E x \in Voxels : GatedProb(x) = threshold /\ threshold > 0
    /\ Cardinality(Exceeding) = 1
    /\ result_entry.mask_confidence = <<1, 1>>

InUnitInterval(f) == f[2] > 0 /\ 0 <= f[1] /\ f[1] <= f[2]

\* C8: for every model output and every threshold, also below 0 or above 1,
\* presence_confidence and mask_confidence lie in [0,1].
C8_ConfidencesInUnitInterval ==
    endpoint # "none" =>
        /\ InUnitInterval(result_entry.presence_confidence)
        /\ InUnitInterval(result_entry.mask_confidence)

\* A negative threshold lets every voxel through, gated or not.
C8_Witness ==
    /\ endpoint = "nifti"
    /\ threshold < 0
    /\ Exceeding = Voxels
    /\ Cardinality(Voxels) = 4
    /\ result_entry.mask_confidence = <<3, 4>>


(***************************************************************************)
(* Paths and names.  A string is a tuple of tokens, "/" being one of them; *)
(* a path is a tuple of components, each the tuple of its tokens.          *)
(***************************************************************************)
TMP_DIR == << <<"repo">>, <<"backend">>, <<"tmp">>, <<"biomedparse">> >>

Front(q) == SubSeq(q, 1, Len(q) - 1)

\* str.endswith
EndsWith(str, suffix) ==
    /\ Len(str) >= Len(suffix)
    /\ SubSeq(str, Len(str) - Len(suffix) + 1, Len(str)) = suffix

\* str.split("/")
RECURSIVE SplitFrom(_, _, _)
SplitFrom(str, cur, acc) ==
    IF str = <<>> THEN Append(acc, cur)
    ELSE IF Head(str) = "/" THEN SplitFrom(Tail(str), <<>>, Append(acc, cur))
    ELSE SplitFrom(Tail(str), Append(cur, Head(str)), acc)

Split(str) == SplitFrom(str, <<>>, <<>>)

\* TMP_DIR / name: an absolute name replaces the left operand; empty and
\* "." components are dropped.
JoinPath(dir, name) ==
    LET comps == SelectSeq(Split(name), LAMBDA c : c # <<>> /\ c # <<".">>)
    IN  IF name # <<>> /\ Head(name) = "/" THEN comps ELSE dir \o comps

\* Where the symbolic links of the model point (absolute paths).
LinkTarget(p) ==
    IF p = Append(TMP_DIR, <<"link", ".npz">>)
    THEN << <<"etc">>, <<"passwd", ".npz">> >>
    ELSE Front(TMP_DIR)                     \* TMP_DIR/up -> TMP_DIR/..

\* Path.resolve(): ".." steps up from the resolved prefix, a symbolic link
\* is replaced by its target, missing components are kept as they are.
RECURSIVE ResolveFrom(_, _, _)
ResolveFrom(base, rest, links) ==
    IF rest = <<>> THEN base
    ELSE IF Head(rest) = <<"..">>
    THEN ResolveFrom(IF base = <<>> THEN <<>> ELSE Front(base), Tail(rest), links)
    ELSE IF Append(base, Head(rest)) \in links
    THEN ResolveFrom(<<>>, LinkTarget(Append(base, Head(rest))) \o Tail(rest), links)
    ELSE ResolveFrom(Append(base, Head(rest)), Tail(rest), links)

Resolve(path, links) == ResolveFrom(<<>>, path, links)

\* resolve() raises on an embedded null byte
CanResolve(path) == \A i \in 1..Len(path) : \A j \in 1..Len(path[i]) : path[i][j] # "NUL"

Parent(path) == IF path = <<>> THEN <<>> ELSE Front(path)

\* astype(np.uint8) without the clip: the value wraps around.
WrapU8(v) == v % 256

\* np.clip(arr, 0, 255).astype(np.uint8)
ClipU8(v) == IF v < 0 THEN 0 ELSE IF v > 255 THEN 255 ELSE v

\* Lines 637-638: an array that is not uint8 is clipped and cast.  data
\* lists the elements of an array in C order.
EnsureU8(arr) ==
    IF arr.dtype # "uint8"
    THEN [dtype |-> "uint8", shape |-> arr.shape,
          data |-> [i \in 1..Len(arr.data) |-> ClipU8(arr.data[i])]]
    ELSE arr

B64Alphabet ==
    << "A", "B", "C", "D", "E", "F", "G", "H", "I", "J", "K", "L", "M",
       "N", "O", "P", "Q", "R", "S", "T", "U", "V", "W", "X", "Y", "Z",
       "a", "b", "c", "d", "e", "f", "g", "h", "i", "j", "k", "l", "m",
       "n", "o", "p", "q", "r", "s", "t", "u", "v", "w", "x", "y", "z",
       "0", "1", "2", "3", "4", "5", "6", "7", "8", "9", "+", "/" >>

\* base64.b64encode(b).decode("ascii"): three bytes give four characters,
\* a shorter last group is padded with "=".
RECURSIVE b64encode(_)
b64encode(b) ==
    IF b = <<>> THEN <<>>
    ELSE IF Len(b) = 1
    THEN << B64Alphabet[(b[1] \div 4) + 1],
            B64Alphabet[(b[1] % 4) * 16 + 1], "=", "=" >>
    ELSE IF Len(b) = 2
    THEN << B64Alphabet[(b[1] \div 4) + 1],
            B64Alphabet[(b[1] % 4) * 16 + (b[2] \div 16) + 1],
            B64Alphabet[(b[2] % 16) * 4 + 1], "=" >>
    ELSE << B64Alphabet[(b[1] \div 4) + 1],
            B64Alphabet[(b[1] % 4) * 16 + (b[2] \div 16) + 1],
            B64Alphabet[(b[2] % 16) * 4 + (b[3] \div 64) + 1],
            B64Alphabet[(b[3] % 64) + 1] >>
         \o b64encode(SubSeq(b, 4, Len(b)))

\* Lines 636-645: the body of a successful response.
Payload(arr) ==
    LET u8 == EnsureU8(arr) IN
    [status |-> 200, detail |-> <<>>, shape |-> u8.shape, dtype |-> "uint8",
     data_base64 |-> b64encode(u8.data)]

Reply(status, detail) ==
    [status |-> status, detail |-> detail, shape |-> <<>>, dtype |-> "",
     data_base64 |-> <<>>]

\* The key error is caught by the generic handler of line 648.
ReadNpz_key_error_swallowed(file, key) ==
    IF ~file.readable \/ key \notin DOMAIN file.arrays
    THEN Reply(500, <<"Failed", "to", "read", "NPZ">>)
    ELSE Payload(file.arrays[key])

\* Lines 631-649: load the archive and serialise one array.
ReadNpz(file, key) ==
    IF ~file.readable
    THEN Reply(500, <<"Failed", "to", "read", "NPZ">>)
    ELSE IF key \notin DOMAIN file.arrays
    THEN Reply(400, <<"Key", key, "not", "in", "NPZ">>)
    ELSE Payload(file.arrays[key])

\* The existence test is made before the containment test.
fetch_npz_exists_first(name, key, files, links) ==
    IF ~EndsWith(name, <<".npz">>)
    THEN Reply(400, <<"Expected", ".npz", "filename">>)
    ELSE IF ~CanResolve(JoinPath(TMP_DIR, name))
    THEN Reply(400, <<"Invalid", "path">>)
    ELSE LET npz_path == Resolve(JoinPath(TMP_DIR, name), links) IN
         IF npz_path \notin DOMAIN files
         THEN Reply(404, <<"File", "not", "found">>)
         ELSE IF Parent(npz_path) # Resolve(TMP_DIR, links)
         THEN Reply(403, <<"Access", "denied">>)
         ELSE ReadNpz(files[npz_path], key)

\* fetch_npz, lines 612-649
fetch_npz(name, key, files, links) ==
    IF ~EndsWith(name, <<".npz">>)
    THEN Reply(400, <<"Expected", ".npz", "filename">>)
    ELSE IF ~CanResolve(JoinPath(TMP_DIR, name))
    THEN Reply(400, <<"Invalid", "path">>)
    ELSE LET npz_path == Resolve(JoinPath(TMP_DIR, name), links) IN
         IF Parent(npz_path) # Resolve(TMP_DIR, links)
         THEN Reply(403, <<"Access", "denied">>)
         ELSE IF npz_path \notin DOMAIN files
         THEN Reply(404, <<"File", "not", "found">>)
         ELSE ReadNpz(files[npz_path], key)

(***************************************************************************)
(* Files, links and names of the fetch model                               *)
(***************************************************************************)
Array(dtype, shape, data) == [dtype |-> dtype, shape |-> shape, data |-> data]

SegArchive ==
    [readable |-> TRUE, arrays |-> ("seg" :> Array("uint8", <<1, 2>>, <<0, 1>>))]

ProbArchive ==
    [readable |-> TRUE, arrays |-> ("prob" :> Array("uint8", <<1, 2>>, <<0, 255>>))]

\* An archive some other writer left: signed and wide values.
WideArchive ==
    [readable |-> TRUE,
     arrays |-> ("seg" :> Array("int16", <<2, 2>>, <<0 - 3, 7, 300, 255>>))
                @@ ("prob" :> Array("int64", <<3>>, <<256, 0 - 1, 128>>))]

Corrupt == [readable |-> FALSE, arrays |-> NoFiles]

SegA == <<"seg_a", ".npz">>
ProbB == <<"prob_b", ".npz">>
PasswdNpz == <<"passwd", ".npz">>

InsidePath == Append(TMP_DIR, SegA)
ProbInsidePath == Append(TMP_DIR, ProbB)
SubdirPath == TMP_DIR \o << <<"sub">>, SegA >>
SiblingPath == << <<"repo">>, <<"backend">>, <<"etc">>, PasswdNpz >>
EtcPath == << <<"etc">>, PasswdNpz >>

FileLink == Append(TMP_DIR, <<"link", ".npz">>)
DirLink == Append(TMP_DIR, <<"up">>)

\* every file system the fetch model starts from
FileSystems ==
    {f \in UNION {[D -> {SegArchive, ProbArchive, WideArchive, Corrupt}] :
                     D \in SUBSET {InsidePath, ProbInsidePath, SubdirPath,
                                   SiblingPath, EtcPath}} :
        \A q \in DOMAIN f :
            /\ q = ProbInsidePath => f[q] = ProbArchive
            /\ q \notin {InsidePath, ProbInsidePath} => f[q] = SegArchive}

Segs == { <<"..">>, <<"etc">>, <<"sub">>, <<"up">>, <<"biomedparse">>,
          SegA, ProbB, PasswdNpz, <<"link", ".npz">> }

RECURSIVE JoinSegs(_)
JoinSegs(q) ==
    IF Len(q) = 1 THEN q[1] ELSE q[1] \o <<"/">> \o JoinSegs(Tail(q))

TraversalName == JoinSegs(<< <<"..">>, <<"..">>, <<"etc">>, PasswdNpz >>)

Names ==
    {JoinSegs(q) : q \in UNION {[1..n -> Segs] : n \in 1..MaxNameSegs}}
    \cup { TraversalName,
           <<"/">> \o JoinSegs(<< <<"etc">>, PasswdNpz >>),
           JoinSegs(<< <<"up">>, <<"biomedparse">>, SegA >>),
           SegA \o <<"/">>,
           SegA \o <<".bak">>,
           <<"NUL", ".npz">> }

FetchKeys == {"seg", "prob"}

InitFetch ==
    /\ ReqIdle
    /\ ModelIdle
    /\ StackIdle
    /\ ProcIdle
    /\ BatchIdle
    /\ ConfIdle
    /\ ValidateIdle
    /\ fs_files \in FileSystems
    /\ fs_links \in SUBSET {FileLink, DirLink}
    /\ FetchIdle

\* GET /fetch-npz.  A request leaves the file system as it is, so one
\* request per behaviour covers every request.
FetchNpz ==
    /\ fetch_resp = NoResponse
    /\ \E name \in Names, key \in FetchKeys :
          /\ fetch_req' = [name |-> name, key |-> key]
          /\ fetch_resp' = fetch_npz(name, key, fs_files, fs_links)
    /\ UNCHANGED <<stackVars, procVars, batchVars, confVars, fsVars, validateVars>>
    /\ UNCHANGED <<modelVars, reqVars>>

NextFetch == FetchNpz

SpecFetch == InitFetch /\ [][NextFetch]_vars

(***************************************************************************)
(* Properties of fetch_npz                                                 *)
(***************************************************************************)
Fetched == fetch_resp.status # 0

Target == Resolve(JoinPath(TMP_DIR, fetch_req.name), fs_links)

\* The name has the extension and resolves to a direct child of TMP_DIR.
Admissible ==
    /\ fetch_req.name # <<>>
    /\ fetch_req.name[Len(fetch_req.name)] = ".npz"
    /\ Target # <<>>
    /\ SubSeq(Target, 1, Len(Target) - 1) = Resolve(TMP_DIR, fs_links)

Without(files, q) == [r \in (DOMAIN files) \ {q} |-> files[r]]

With(files, q) == [r \in (DOMAIN files) \cup {q} |-> IF r = q THEN SegArchive ELSE files[r]]

\* C9: array content is returned only for a name that ends with ".npz" and
\* whose resolved path is a direct child of the artifact directory; every
\* other name is denied, with the same answer whether or not a file exists
\* at the resolved target; "../../etc/passwd.npz" is answered access denied.
C9_DenialIndependentOfExistence ==
    Fetched =>
        /\ fetch_resp.status = 200 => Admissible
        /\ ~Admissible =>
              /\ fetch_resp.status \in {400, 403}
              /\ fetch_resp.data_base64 = <<>>
              /\ fetch_npz(fetch_req.name, fetch_req.key,
                           Without(fs_files, Target), fs_links) = fetch_resp
              /\ fetch_npz(fetch_req.name, fetch_req.key,
                           With(fs_files, Target), fs_links) = fetch_resp
        /\ fetch_req.name = TraversalName =>
              /\ fetch_resp.status = 403
              /\ fetch_resp.detail = <<"Access", "denied">>

\* The traversal name was requested while its target exists.
C9_Witness ==
    /\ fetch_req.name = TraversalName
    /\ Target = SiblingPath
    /\ SiblingPath \in DOMAIN fs_files
    /\ fetch_resp.status = 403

KeyAbsent(key) == <<"Key", key, "not", "in", "NPZ">>

\* C20: for an admissible name, the answer is "file not found" when no file
\* exists at the resolved path; when the file is a readable archive without
\* the requested key the answer is the key-absent client error (400, not the
\* generic read failure) and carries no array data.  So a prob_ artifact
\* fetched with key 'seg' is rejected, and a seg_ artifact fetched with key
\* 'prob' is rejected.
C20_KeyAbsentIsClientError ==
    (Fetched /\ Admissible /\ CanResolve(JoinPath(TMP_DIR, fetch_req.name))) =>
        /\ Target \notin DOMAIN fs_files =>
              fetch_resp = Reply(404, <<"File", "not", "found">>)
        /\ (/\ Target \in DOMAIN fs_files
            /\ fs_files[Target].readable
            /\ fetch_req.key \notin DOMAIN fs_files[Target].arrays) =>
              /\ fetch_resp.status = 400
              /\ fetch_resp.detail = KeyAbsent(fetch_req.key)
              /\ fetch_resp.data_base64 = <<>>
              /\ fetch_resp.shape = <<>>
        /\ (/\ Target = ProbInsidePath
            /\ Target \in DOMAIN fs_files
            /\ fetch_req.key = "seg") => fetch_resp.status = 400
        /\ (/\ Target = InsidePath
            /\ Target \in DOMAIN fs_files
            /\ fs_files[Target] = SegArchive
            /\ fetch_req.key = "prob") => fetch_resp.status = 400

\* The prob_ artifact exists and was fetched with the default key 'seg'.
C20_Witness ==
    /\ fetch_req = [name |-> ProbB, key |-> "seg"]
    /\ Target = ProbInsidePath
    /\ ProbInsidePath \in DOMAIN fs_files
    /\ fetch_resp.status = 400
    /\ fetch_resp.detail = KeyAbsent("seg")


(***************************************************************************)
(* _validate_heatmap_npz (lines 139-150).  The outcome records whether the *)
(* call returned or raised, whether np.load was reached, and the words of  *)
(* the HTTPException detail.                                               *)
(***************************************************************************)
FlagOn == { <<"1">>, <<"t", "r", "u", "e">>, <<"T", "r", "u", "e">>, <<"T", "R", "U", "E">> }

Raised(inner) ==
    [state |-> "raised", loaded |-> TRUE,
     detail |-> <<"Heatmap", "artifact", "validation", "failed:">> \o inner]

validate_heatmap_npz_dtype_unchecked(npz_path, env, files) ==
    LET flag == IF env["BP_VALIDATE_HEATMAP"] = None THEN <<"1">>
                ELSE env["BP_VALIDATE_HEATMAP"][1]
    IN  IF flag \notin FlagOn
        THEN [state |-> "returned", loaded |-> FALSE, detail |-> <<>>]
        ELSE IF npz_path \notin DOMAIN files \/ ~files[npz_path].readable
        THEN Raised(<<"cannot", "load", "file">>)
        ELSE IF "prob" \notin DOMAIN files[npz_path].arrays
        THEN Raised(<<"NPZ", "missing", "'prob'", "key">>)
        ELSE [state |-> "returned", loaded |-> TRUE, detail |-> <<>>]

validate_heatmap_npz(npz_path, env, files) ==
    LET flag == IF env["BP_VALIDATE_HEATMAP"] = None THEN <<"1">>   \* getenv default
                ELSE env["BP_VALIDATE_HEATMAP"][1]
    IN  IF flag \notin FlagOn
        THEN [state |-> "returned", loaded |-> FALSE, detail |-> <<>>]
        ELSE IF npz_path \notin DOMAIN files \/ ~files[npz_path].readable
        THEN Raised(<<"cannot", "load", "file">>)          \* np.load raises
        ELSE IF "prob" \notin DOMAIN files[npz_path].arrays
        THEN Raised(<<"NPZ", "missing", "'prob'", "key">>)
        ELSE IF files[npz_path].arrays["prob"].dtype # "uint8"
        THEN Raised(<<"Heatmap", "'prob'", "must", "be", "uint8">>)
        ELSE [state |-> "returned", loaded |-> TRUE, detail |-> <<>>]

(***************************************************************************)
(* Inputs of the validation                                                *)
(***************************************************************************)
FlagValues ==
    { None, Some(<<>>), Some(<<"0">>), Some(<<"f", "a", "l", "s", "e">>),
      Some(<<"t", "R", "u", "E">>), Some(<<"y", "e", "s">>), Some(<<"1", " ">>) }
    \cup {Some(f) : f \in FlagOn}

Archive(arrays) == [readable |-> TRUE, arrays |-> arrays]

U8 == Array("uint8", <<1, 2>>, <<0, 255>>)
F32 == Array("float32", <<1, 2>>, <<0, 1>>)

HeatmapFiles ==
    { Archive("prob" :> U8), Archive("prob" :> F32),
      Archive("prob" :> Array("float64", <<1, 2>>, <<0, 1>>)),
      Archive("notprob" :> U8), Archive("seg" :> U8),
      Archive(("seg" :> U8) @@ ("prob" :> U8)),
      Archive(("seg" :> U8) @@ ("prob" :> F32)),
      Archive(NoFiles), Corrupt }

ProbPath == Append(TMP_DIR, <<"prob_b", ".npz">>)

InitValidate ==
    /\ ReqIdle
    /\ ModelIdle
    /\ StackIdle
    /\ BatchIdle
    /\ ConfIdle
    /\ FetchIdle
    /\ environ \in {e \in [EnvKeys -> FlagValues] :
                      e["BP_SLICE_BATCH_SIZE"] = None /\ e["BP_SLICE_BATCH"] = None}
    /\ cuda = NoDevice
    /\ fs_files \in UNION {[D -> HeatmapFiles] : D \in SUBSET {ProbPath}}
    /\ fs_links = {}
    /\ ValidateIdle

\* One call _validate_heatmap_npz(prob_path).
ValidateHeatmapNpz ==
    /\ validate_out.state = "idle"
    /\ validate_req' = ProbPath
    /\ validate_out' = validate_heatmap_npz(ProbPath, environ, fs_files)
    /\ UNCHANGED <<stackVars, procVars, batchVars, confVars, fsVars, fetchVars>>
    /\ UNCHANGED <<modelVars, reqVars>>

NextValidate == ValidateHeatmapNpz

SpecValidate == InitValidate /\ [][NextValidate]_vars

(***************************************************************************)
(* Properties of the validation                                            *)
(***************************************************************************)
Validated == validate_out.state # "idle"

ValidationEnabled ==
    \/ environ["BP_VALIDATE_HEATMAP"] = None
    \/ environ["BP_VALIDATE_HEATMAP"] \in
          { Some(<<"1">>), Some(<<"t", "r", "u", "e">>),
            Some(<<"T", "r", "u", "e">>), Some(<<"T", "R", "U", "E">>) }

IsArchive == validate_req \in DOMAIN fs_files /\ fs_files[validate_req].readable

HasProb == IsArchive /\ "prob" \in DOMAIN fs_files[validate_req].arrays

ProbIsU8 == HasProb /\ fs_files[validate_req].arrays["prob"].dtype = "uint8"

Words(detail) == {detail[i] : i \in 1..Len(detail)}

\* C10: with validation enabled the call succeeds exactly when the archive
\* has a 'prob' array of dtype uint8; without 'prob' it fails with a message
\* containing "missing", with a 'prob' of another dtype with a message
\* containing "uint8".  With validation disabled it returns without loading
\* the file and never fails.
C10_ValidationOutcome ==
    Validated =>
        IF ValidationEnabled
        THEN /\ validate_out.state = "returned" <=> ProbIsU8
             /\ (IsArchive /\ ~HasProb) =>
                   (validate_out.state = "raised" /\ "missing" \in Words(validate_out.detail))
             /\ (HasProb /\ ~ProbIsU8) =>
                   (validate_out.state = "raised" /\ "uint8" \in Words(validate_out.detail))
        ELSE /\ validate_out.state = "returned"
             /\ ~validate_out.loaded

\* A float32 heatmap was rejected with the flag left unset.
C10_Witness ==
    /\ Validated
    /\ environ["BP_VALIDATE_HEATMAP"] = None
    /\ HasProb
    /\ fs_files[validate_req].arrays["prob"].dtype = "float32"
    /\ validate_out.state = "raised"
    /\ "uint8" \in Words(validate_out.detail)

(***************************************************************************)
(* _init_model_3d (lines 168-191): the lazily built 3D model.  The         *)
(* function has no lock, so calls made by different callers interleave     *)
(* between its statements.                                                 *)
(***************************************************************************)
MaxCalls == 2       \* calls of _init_model_3d one caller makes

CfgName == "biomedparse_3D"

InitModel ==
    /\ ReqIdle
    /\ StackIdle
    /\ ProcIdle
    /\ BatchIdle
    /\ ConfIdle
    /\ FsIdle
    /\ FetchIdle
    /\ ValidateIdle
    /\ MODEL_3D = None
    /\ MODEL_3D_CFG = None
    /\ ckpt_exists \in BOOLEAN
    /\ init_call = [c \in Callers |-> NotCalled]
    /\ instantiated = 0
    /\ loaded = {}
    /\ init_failed = FALSE

ModelFrame == UNCHANGED <<stackVars, procVars, batchVars, confVars, fsVars,
                          fetchVars, validateVars, reqVars>>

\* Line 301 / 509: a request enters _init_model_3d.
CallInit(c) ==
    /\ init_call[c].pc \in {"idle", "returned", "raised"}
    /\ init_call[c].calls < MaxCalls
    /\ init_call' = [init_call EXCEPT ![c] =
           [pc |-> "check", model |-> 0, result |-> None,
            calls |-> @.calls + 1, after_failure |-> init_failed]]
    /\ UNCHANGED <<MODEL_3D, MODEL_3D_CFG, ckpt_exists, instantiated, loaded,
                   init_failed>>
    /\ ModelFrame

\* Lines 170-171: the plain "is not None" test.
memo_check(memo) == memo # None

CheckMemo(c) ==
    /\ init_call[c].pc = "check"
    /\ init_call' = [init_call EXCEPT ![c] =
           IF memo_check(MODEL_3D)
           THEN [@ EXCEPT !.pc = "returned", !.result = MODEL_3D]
           ELSE [@ EXCEPT !.pc = "instantiate"]]
    /\ UNCHANGED <<MODEL_3D, MODEL_3D_CFG, ckpt_exists, instantiated, loaded,
                   init_failed>>
    /\ ModelFrame

\* Lines 172-178: compose the configuration and instantiate a new model.
Instantiate(c) ==
    /\ init_call[c].pc = "instantiate"
    /\ MODEL_3D_CFG' = Some(CfgName)
    /\ instantiated' = instantiated + 1
    /\ init_call' = [init_call EXCEPT ![c] =
           [@ EXCEPT !.pc = "ckpt", !.model = instantiated + 1]]
    /\ UNCHANGED <<MODEL_3D, ckpt_exists, loaded, init_failed>>
    /\ ModelFrame

\* Lines 180-186: the checkpoint must exist, else RuntimeError.
CheckCheckpoint(c) ==
    /\ init_call[c].pc = "ckpt"
    /\ init_call' = [init_call EXCEPT ![c] =
           [@ EXCEPT !.pc = IF ckpt_exists THEN "load" ELSE "raised"]]
    /\ init_failed' = (init_failed \/ ~ckpt_exists)
    /\ UNCHANGED <<MODEL_3D, MODEL_3D_CFG, ckpt_exists, instantiated, loaded>>
    /\ ModelFrame

\* Lines 187-189: load_pretrained, to(device), eval.
LoadPretrained(c) ==
    /\ init_call[c].pc = "load"
    /\ loaded' = loaded \cup {init_call[c].model}
    /\ init_call' = [init_call EXCEPT ![c] = [@ EXCEPT !.pc = "assign"]]
    /\ UNCHANGED <<MODEL_3D, MODEL_3D_CFG, ckpt_exists, instantiated, init_failed>>
    /\ ModelFrame

\* Lines 190-191: MODEL_3D = model; return MODEL_3D.
Memoize(c) ==
    /\ init_call[c].pc = "assign"
    /\ MODEL_3D' = Some(init_call[c].model)
    /\ init_call' = [init_call EXCEPT ![c] =
           [@ EXCEPT !.pc = "returned", !.result = Some(init_call[c].model)]]
    /\ UNCHANGED <<MODEL_3D_CFG, ckpt_exists, instantiated, loaded, init_failed>>
    /\ ModelFrame

\* The operator puts the checkpoint file in place (BP3D_CKPT, line 180).
InstallCheckpoint ==
    /\ ~ckpt_exists
    /\ ckpt_exists' = TRUE
    /\ UNCHANGED <<MODEL_3D, MODEL_3D_CFG, init_call, instantiated, loaded,
                   init_failed>>
    /\ ModelFrame

NextModel ==
    \/ \E c \in Callers : CallInit(c)
    \/ \E c \in Callers : CheckMemo(c)
    \/ \E c \in Callers : Instantiate(c)
    \/ \E c \in Callers : CheckCheckpoint(c)
    \/ \E c \in Callers : LoadPretrained(c)
    \/ \E c \in Callers : Memoize(c)
    \/ InstallCheckpoint

SpecModel == InitModel /\ [][NextModel]_vars

Observed == {init_call[c].result : c \in {d \in Callers : init_call[d].result # None}}

\* C11: over any interleaving of calls to _init_model_3d the model is
\* constructed (instantiated and its checkpoint loaded) at most once, every
\* caller that returned observed the same instance, and the memoised instance
\* is one of those observed, never a replacement.
C11_ConstructedOnce ==
    /\ Cardinality(loaded) <= 1
    /\ Cardinality(Observed) <= 1
    /\ MODEL_3D # None => Observed \subseteq {MODEL_3D}

\* C14: a failed construction memoises nothing, the memoised model is always
\* one whose checkpoint was loaded, and a call that begins after a
\* construction has failed for a missing checkpoint does not run the
\* construction again.
C14_FailureDeterminedOnce ==
    /\ MODEL_3D # None => MODEL_3D[1] \in loaded
    /\ \A c \in Callers :
          init_call[c].pc = "raised" => MODEL_3D # Some(init_call[c].model)
    /\ \A c \in Callers :
          init_call[c].after_failure =>
              init_call[c].pc \notin {"ckpt", "load", "assign"}

(***************************************************************************)
(* POST /predict-3d-nifti (predict_3d_nifti, _infer_3d_nifti) and          *)
(* POST /predict-3d-dicom (predict_3d_dicom, _infer_3d_dicom_zip): one     *)
(* request from submission to response.  Request r1 is a NIfTI request,    *)
(* request r2 a DICOM ZIP request; their steps interleave.                 *)
(***************************************************************************)
MaxPrompts == 2     \* prompts of one request

Kind(r) == IF r = "r1" THEN "nifti" ELSE "dicom"

PromptText(k) == <<"prompt", k>>

\* Values next(tempfile._get_candidate_names()) may return: random names,
\* drawn without looking at the files that exist.
CandidateNames == {"a", "b"}

\* Depth of the model's input and output volumes.
PaddedDepth == 2

\* Depth of the uploaded volume: the NIfTI upload has one slice, which the
\* forward transform pads; the DICOM series fills the model's depth.
InputDepth(r) == IF Kind(r) = "nifti" THEN 1 ELSE PaddedDepth

\* Threshold of the requests, in units of 1/ProbScale: the default 0.5.
RequestThresholds == {LogitMax}

\* What the model returns: pred_gmasks and object_existence, one entry per
\* query channel.
ModelChannels ==
    << [mask_logits |-> << <<1, 0>>, <<0 - 1, 1>> >>, existence_logits |-> <<1, 1>>],
       [mask_logits |-> << <<0, 1>>, <<0, 1>> >>, existence_logits |-> <<0 - 1, 0>>] >>

ChannelCounts == 0..Len(ModelChannels)

\* process_input(vol, 512): the volume is padded to the model's depth; the
\* triple records how to undo it.
process_input(depth) ==
    [pad_width |-> PaddedDepth - depth, padded_size |-> PaddedDepth, valid_axis |-> 0]

\* process_output(arr, pad_width, padded_size, valid_axis): the padding is
\* cut away, the values are kept.
process_output(arr, params) ==
    SubSeq(arr, 1, params.padded_size - params.pad_width)

\* The most recent forward transform's triple is used.
InverseParamsShared(own, latest) == latest[1]

\* pad_width, padded_size, valid_axis are locals of the inference function.
InverseParams(own, latest) == own[1]

\* The first channel is read for every prompt.
SelectChannelFirst(channels, i) == channels[1]

\* mask_probs[i], existence_probs[i] (i counts from 0)
SelectChannel(channels, i) == channels[i + 1]

\* The scaled value is rounded to the nearest integer.
QuantizeRounded(p) ==
    LET clipped == IF p < 0 THEN 0 ELSE IF p > ProbScale THEN ProbScale ELSE p
    IN  ((2 * clipped * 255 + ProbScale) \div (2 * ProbScale)) % 256

\* (np.clip(p, 0.0, 1.0) * 255.0).astype(np.uint8): astype truncates.
Quantize(p) ==
    LET clipped == IF p < 0 THEN 0 ELSE IF p > ProbScale THEN ProbScale ELSE p
    IN  ((clipped * 255) \div ProbScale) % 256

\* arr.astype(np.uint8) on an integer array
AsU8(x) == x % 256

Shape(arr) == <<Len(arr), IF arr = <<>> THEN 0 ELSE Len(arr[1])>>

ProbFile(vol_prob_np) ==
    Archive("prob" :> Array("uint8", Shape(vol_prob_np),
                             [k \in 1..Len(Flatten(vol_prob_np)) |->
                                 Quantize(Flatten(vol_prob_np)[k])]))

SegFile(vol_mask_np) ==
    Archive("seg" :> Array("uint8", Shape(vol_mask_np),
                            [k \in 1..Len(Flatten(vol_mask_np)) |->
                                AsU8(Flatten(vol_mask_np)[k])]))

ArtifactName(prefix, id) == <<prefix, id, ".npz">>

ArtifactPath(prefix, id) == Append(TMP_DIR, ArtifactName(prefix, id))

FileUrl(q) == <<"/files/">> \o q[Len(q)]

\* The uploaded bytes, in the temporary file or directory of the request.
TmpInput(r) == << <<"tmp">>, <<"tmp", r>> >>

Upload == [readable |-> FALSE, arrays |-> NoFiles]

WriteFile(files, q, content) ==
    [x \in (DOMAIN files) \cup {q} |-> IF x = q THEN content ELSE files[x]]

\* The clean-up also empties the artifact directory.
UnlinkAndClearArtifacts(files, q) ==
    [x \in {y \in (DOMAIN files) \ {q} : Front(y) # TMP_DIR} |-> files[x]]

\* os.unlink(tmp_path) / leaving the TemporaryDirectory block
Unlink(files, q) == [x \in (DOMAIN files) \ {q} |-> files[x]]

\* The temporary input is left behind.
CleanupSkipped(files, r) == files

\* The finally block of _infer_3d_nifti and the exit of the
\* TemporaryDirectory block of _infer_3d_dicom_zip.
Cleanup(files, r) == Unlink(files, TmpInput(r))

\* The exception is answered as a success without results.
EndpointFailureAsSuccess(kind, detail) ==
    [status |-> 200, detail |-> detail, results |-> <<>>]

\* except Exception as e: raise HTTPException(status_code=500, ...)
EndpointFailure(kind, detail) ==
    [status |-> 500,
     detail |-> <<IF kind = "nifti" THEN "3D NIfTI inference failed:"
                  ELSE "3D DICOM inference failed:">> \o detail,
     results |-> <<>>]

Entry(kind, out, th) == IF kind = "nifti" THEN nifti_entry(out, th) ELSE dicom_entry(out, th)

InitRequest ==
    /\ StackIdle
    /\ ProcIdle
    /\ BatchIdle
    /\ ConfIdle
    /\ FsIdle
    /\ FetchIdle
    /\ ValidateIdle
    /\ MODEL_3D = Some(1)
    /\ MODEL_3D_CFG = Some(CfgName)
    /\ ckpt_exists = TRUE
    /\ init_call = [c \in Callers |-> NotCalled]
    /\ instantiated = 1
    /\ loaded = {1}
    /\ init_failed = FALSE
    /\ req = [r \in Callers |-> NoRequest]
    /\ writes = {}
    /\ last_transform = None

RequestFrame == UNCHANGED <<stackVars, procVars, batchVars, confVars, fs_links,
                            fetchVars, validateVars, modelVars>>

\* The endpoint's checks, then the upload is written to a temporary file
\* (lines 305-307) or directory (lines 513-518).
Submit(r) ==
    /\ req[r].pc = "idle"
    /\ \E P \in 0..MaxPrompts, hm \in BOOLEAN, th \in RequestThresholds :
          IF P = 0
          THEN /\ req' = [req EXCEPT ![r] = [@ EXCEPT
                      !.pc = "rejected",
                      !.response = [status |-> 400,
                                    detail |-> <<"No prompts provided">>,
                                    results |-> <<>>]]]
               /\ UNCHANGED fs_files
          ELSE /\ req' = [req EXCEPT ![r] = [@ EXCEPT
                      !.pc = "input",
                      !.prompts = [k \in 1..P |-> PromptText(k)],
                      !.return_heatmap = hm,
                      !.threshold = th,
                      !.depth = InputDepth(r)]]
               /\ fs_files' = WriteFile(fs_files, TmpInput(r), Upload)
    /\ UNCHANGED <<writes, last_transform>>
    /\ RequestFrame

\* Lines 309-336 / 520-539: load or stack the volume, transform it, run the
\* model.  An unreadable upload raises, the temporary input is removed and
\* the endpoint answers 500.
Preprocess(r) ==
    /\ req[r].pc = "input"
    /\ \/ /\ req' = [req EXCEPT ![r] = [@ EXCEPT
                 !.pc = "failed",
                 !.failed_at = "load",
                 !.response = EndpointFailure(Kind(r), <<"cannot", "read", "volume">>)]]
          /\ fs_files' = Cleanup(fs_files, r)
          /\ UNCHANGED last_transform
       \/ \E N \in ChannelCounts :
          /\ req' = [req EXCEPT ![r] = [@ EXCEPT
                 !.pc = "loop",
                 !.transform = Some(process_input(req[r].depth)),
                 !.channels = SubSeq(ModelChannels, 1, N),
                 !.i = 0]]
          /\ last_transform' = Some(process_input(req[r].depth))
          /\ UNCHANGED fs_files
    /\ UNCHANGED writes
    /\ RequestFrame

InLoop(r) == req[r].i < Len(req[r].prompts) /\ req[r].i < Len(req[r].channels)

\* Lines 345-364 / 545-558: gate and binarise channel i, invert the mask
\* and, when a heatmap is requested, invert and persist the probabilities.
BeginPrompt(r) ==
    /\ req[r].pc = "loop"
    /\ InLoop(r)
    /\ LET out    == SelectChannel(req[r].channels, req[r].i)
           th     == req[r].threshold
           gated  == Gate(MaskProbs(out), ExistenceProbs(out), th)
           bin    == Binarize(gated, th)
           params == InverseParams(req[r].transform, last_transform)
           vol_mask_np == process_output(bin, params)
           vol_prob_np == process_output(gated, params)
       IN  IF req[r].return_heatmap
           THEN \E prob_id \in CandidateNames :
                LET prob_path == ArtifactPath("prob_", prob_id) IN
                /\ fs_files' = WriteFile(fs_files, prob_path, ProbFile(vol_prob_np))
                /\ writes' = writes \cup
                       {[by |-> r, prompt |-> req[r].i, path |-> prob_path,
                         source |-> vol_prob_np, stored |-> ProbFile(vol_prob_np)]}
                /\ req' = [req EXCEPT ![r] = [@ EXCEPT
                       !.pc = "validate",
                       !.vol_mask_np = vol_mask_np,
                       !.prob_path = Some(prob_path),
                       !.inverted = @ \o <<params, params>>]]
           ELSE /\ req' = [req EXCEPT ![r] = [@ EXCEPT
                       !.pc = "persist",
                       !.vol_mask_np = vol_mask_np,
                       !.prob_path = None,
                       !.inverted = Append(@, params)]]
                /\ UNCHANGED <<fs_files, writes>>
    /\ UNCHANGED last_transform
    /\ RequestFrame

\* Line 365 / 560: _validate_heatmap_npz(prob_path).  np.load may fail on
\* the file just written (an I/O error); the exception leaves the inference
\* function through its clean-up and the endpoint answers 500.
ValidateHeatmap(r) ==
    /\ req[r].pc = "validate"
    /\ \E io_error \in BOOLEAN :
          LET prob_path == req[r].prob_path[1]
              seen == IF io_error THEN WriteFile(fs_files, prob_path, Corrupt)
                      ELSE fs_files
              out  == validate_heatmap_npz(prob_path, environ, seen)
          IN  IF out.state = "raised"
              THEN /\ req' = [req EXCEPT ![r] = [@ EXCEPT
                          !.pc = "failed",
                          !.failed_at = "validate",
                          !.response = EndpointFailure(Kind(r), out.detail)]]
                   /\ fs_files' = Cleanup(fs_files, r)
              ELSE /\ req' = [req EXCEPT ![r] = [@ EXCEPT !.pc = "persist"]]
                   /\ UNCHANGED fs_files
    /\ UNCHANGED <<writes, last_transform>>
    /\ RequestFrame

\* Lines 368-387 / 562-580: confidences, the seg artifact, the result entry.
\* np.savez_compressed may fail to create the file (an OSError): nothing is
\* written, the clean-up runs and the endpoint answers 500.
PersistMask(r) ==
    /\ req[r].pc = "persist"
    /\ \/ /\ req' = [req EXCEPT ![r] = [@ EXCEPT
                 !.pc = "failed",
                 !.failed_at = "write",
                 !.response = EndpointFailure(Kind(r), <<"cannot", "write", "artifact">>)]]
          /\ fs_files' = Cleanup(fs_files, r)
          /\ UNCHANGED writes
       \/ \E file_id \in CandidateNames :
          LET out_path == ArtifactPath("seg_", file_id)
              out      == SelectChannel(req[r].channels, req[r].i)
              conf     == Entry(Kind(r), out, req[r].threshold)
              entry ==
                  [prompt |-> req[r].prompts[req[r].i + 1],
                   presence_confidence |-> conf.presence_confidence,
                   mask_confidence |-> conf.mask_confidence,
                   mask_shape |-> Shape(req[r].vol_mask_np),
                   mask_url |-> FileUrl(out_path),
                   heatmap_url |-> IF req[r].prob_path = None THEN None
                                   ELSE Some(FileUrl(req[r].prob_path[1]))]
          IN  /\ fs_files' = WriteFile(fs_files, out_path, SegFile(req[r].vol_mask_np))
              /\ writes' = writes \cup
                     {[by |-> r, prompt |-> req[r].i, path |-> out_path,
                       source |-> req[r].vol_mask_np,
                       stored |-> SegFile(req[r].vol_mask_np)]}
              /\ req' = [req EXCEPT ![r] = [@ EXCEPT
                     !.pc = "loop",
                     !.i = @ + 1,
                     !.vol_mask_np = <<>>,
                     !.prob_path = None,
                     !.results_out = Append(@, entry)]]
    /\ UNCHANGED last_transform
    /\ RequestFrame

\* Lines 389-394 / 581 and the endpoint's return: the loop has ended, the
\* temporary input is removed, the results are returned.
Finish(r) ==
    /\ req[r].pc = "loop"
    /\ ~InLoop(r)
    /\ req' = [req EXCEPT ![r] = [@ EXCEPT
           !.pc = "done",
           !.response = [status |-> 200, detail |-> <<>>, results |-> req[r].results_out]]]
    /\ fs_files' = Cleanup(fs_files, r)
    /\ UNCHANGED <<writes, last_transform>>
    /\ RequestFrame

NextRequest ==
    \/ \E r \in Callers : Submit(r)
    \/ \E r \in Callers : Preprocess(r)
    \/ \E r \in Callers : BeginPrompt(r)
    \/ \E r \in Callers : ValidateHeatmap(r)
    \/ \E r \in Callers : PersistMask(r)
    \/ \E r \in Callers : Finish(r)

SpecRequest == InitRequest /\ [][NextRequest]_vars

Artifacts(files) == {q \in DOMAIN files : Front(q) = TMP_DIR}

\* C12: no two artifact writes, of one request or of different requests,
\* ever target the same file path.
C12_NoTwoWritesSamePath ==
    \A w1, w2 \in writes : w1 # w2 => w1.path # w2.path

\* The request failed in the validation of the heatmap it had just written.
ValidationFailed(r) == req[r].pc = "failed" /\ req[r].failed_at = "validate"

\* C13: when the validation of a written probability artifact fails, the
\* request is answered as a failure with no results, and the probability
\* file and every artifact the request wrote for earlier prompts are still
\* on disk, then and ever after.
C13_FailureKeepsArtifacts ==
    \A r \in Callers :
        ValidationFailed(r) =>
            /\ req[r].response.status = 500
            /\ req[r].response.results = <<>>
            /\ req[r].prob_path[1] \in DOMAIN fs_files
            /\ \A w \in writes : w.by = r => w.path \in DOMAIN fs_files

\* A request failed validation at its second prompt, after the first
\* prompt's artifacts had been written.
C13_Witness ==
    \E r \in Callers :
        /\ ValidationFailed(r)
        /\ Len(req[r].results_out) = 1
        /\ Cardinality({w \in writes : w.by = r}) = 3
        /\ req[r].response.status = 500
        /\ req[r].prob_path[1] \in DOMAIN fs_files

\* C17: every inverse transform of a request is called with the triple the
\* forward transform of that same request returned, however the requests
\* interleave; the mask and the probability volume of a prompt are inverted
\* with the same triple, and the mask comes back with the input's depth.
C17_InverseUsesOwnTransform ==
    \A r \in Callers :
        /\ \A k \in 1..Len(req[r].inverted) :
              req[r].inverted[k] = process_input(req[r].depth)
        /\ req[r].pc \in {"validate", "persist"} =>
              Len(req[r].vol_mask_np) = req[r].depth
        /\ \A k \in 1..Len(req[r].results_out) :
              req[r].results_out[k].mask_shape[1] = req[r].depth
        /\ req[r].pc \in {"loop", "done"} =>
              Len(req[r].inverted) =
                  (IF req[r].return_heatmap THEN 2 ELSE 1) * req[r].i

\* A request inverted mask and probabilities after the other request, whose
\* volume has another depth, had run its forward transform.
C17_Witness ==
    \E r, o \in Callers :
        /\ r # o
        /\ req[r].return_heatmap
        /\ Len(req[r].inverted) >= 2
        /\ req[o].transform # None
        /\ req[o].depth # req[r].depth
        /\ last_transform = req[o].transform
        /\ req[r].pc = "validate"

\* C18: a successful request with P prompts on N output channels returns
\* min(P, N) results; result k carries prompt k and the confidences of
\* channel k; the request wrote artifacts for exactly those prompts and for
\* no prompt beyond the channels.
C18_ResultsPerChannel ==
    \A r \in Callers :
        req[r].pc = "done" =>
            LET res == req[r].response.results
                P   == Len(req[r].prompts)
                N   == Len(req[r].channels)
                own == {w \in writes : w.by = r}
            IN  /\ req[r].response.status = 200
                /\ Len(res) = Min({P, N})
                /\ \A k \in 1..Len(res) :
                      /\ res[k].prompt = PromptText(k)
                      /\ res[k].presence_confidence =
                            Entry(Kind(r), ModelChannels[k], req[r].threshold).presence_confidence
                      /\ res[k].mask_confidence =
                            Entry(Kind(r), ModelChannels[k], req[r].threshold).mask_confidence
                /\ {w.prompt : w \in own} = 0..(Min({P, N}) - 1)
                /\ Cardinality(own) =
                      (IF req[r].return_heatmap THEN 2 ELSE 1) * Min({P, N})

\* Two prompts were submitted, the model returned one channel, and the
\* request succeeded with one result.
C18_Witness ==
    \E r \in Callers :
        /\ req[r].pc = "done"
        /\ Len(req[r].prompts) = 2
        /\ Len(req[r].channels) = 1
        /\ Len(req[r].response.results) = 1
        /\ {w.prompt : w \in {x \in writes : x.by = r}} = {0}

DefaultEnviron == [k \in EnvKeys |-> None]

\* C19: every persisted array is uint8; a 'seg' array holds only 0 and 1;
\* each 'prob' value v is the integer part of clip(p, 0, 1) * 255 for the
\* inverted gated probability p, with p <= 0 giving 0 and p >= 1 giving 255;
\* a written probability artifact passes the heatmap validator; and every
\* file in the artifact directory is one of those written.
C19_PersistedArraysAreU8 ==
    /\ \A w \in writes :
          LET arrs == w.stored.arrays
              src  == Flatten(w.source)
          IN  /\ DOMAIN arrs \in {{"seg"}, {"prob"}}
              /\ \A key \in DOMAIN arrs :
                    /\ arrs[key].dtype = "uint8"
                    /\ Len(arrs[key].data) = Len(src)
                    /\ \A k \in 1..Len(src) : arrs[key].data[k] \in 0..255
              /\ "seg" \in DOMAIN arrs =>
                    \A k \in 1..Len(src) : arrs["seg"].data[k] \in {0, 1}
              /\ "prob" \in DOMAIN arrs =>
                    /\ \A k \in 1..Len(src) :
                          LET p == src[k]
                              c == IF p < 0 THEN 0 ELSE IF p > ProbScale THEN ProbScale ELSE p
                              v == arrs["prob"].data[k]
                          IN  /\ v * ProbScale <= c * 255
                              /\ c * 255 < (v + 1) * ProbScale
                              /\ p <= 0 => v = 0
                              /\ p >= ProbScale => v = 255
                    /\ validate_heatmap_npz(w.path, DefaultEnviron,
                                            w.path :> w.stored).state = "returned"
    /\ \A q \in Artifacts(fs_files) :
          \E w \in writes : w.path = q /\ w.stored = fs_files[q]

\* A probability volume holding 0, 1/2 and 1 was persisted as 0, 127, 255.
C19_Witness ==
    \E w \in writes :
        /\ "prob" \in DOMAIN w.stored.arrays
        /\ Flatten(w.source) = <<ProbScale, LogitMax, 0, ProbScale>>
        /\ w.stored.arrays["prob"].data = <<255, 127, 0, 255>>
        /\ w.path \in DOMAIN fs_files


(***************************************************************************)
(* Properties of the order keys and of the stacked volume                  *)
(***************************************************************************)
\* Row x column of a slice's orientation, component by component.
Normal(id) ==
    LET o == SliceCatalogue[id].iop[1]
    IN  << o[2] * o[6] - o[3] * o[5],
           o[3] * o[4] - o[1] * o[6],
           o[1] * o[5] - o[2] * o[4] >>

\* The first discovered slice that parsed and carries usable geometry.
HasReference == \E i \in 1..Len(dicom_files) : Resolvable(dicom_files[i])

Reference ==
    dicom_files[Min({i \in 1..Len(dicom_files) : Resolvable(dicom_files[i])})]

\* Signed distance of a slice from the reference along the reference normal.
Distance(id) ==
    LET d == Minus(Position(id), Position(Reference))
        n == Normal(Reference)
    IN  d[1] * n[1] + d[2] * n[2] + d[3] * n[3]

Ascending(pairs) ==
    \A i, j \in 1..Len(pairs) : i < j => pairs[i][1] <= pairs[j][1]

Ids(pairs) == [i \in 1..Len(pairs) |-> pairs[i][2]]

\* C22: in a returned volume the geometry-resolvable slices are emitted in
\* non-decreasing order of their signed distance from the reference along
\* the reference normal and the fallback slices in non-decreasing order of
\* their fallback key; the reference is the first geometry-resolvable slice
\* that parsed, it is emitted, and its key is 0.
C22_KeysAscendWithinGroups ==
    stack_pc = "done" =>
        /\ vol.slices = Ids(robust_slices) \o Ids(fallback_slices)
        /\ Ascending(robust_slices)
        /\ Ascending(fallback_slices)
        /\ \A i \in 1..Len(robust_slices) :
              robust_slices[i][1] = Distance(robust_slices[i][2])
        /\ HasReference =>
              /\ reference_ipp = Some(Position(Reference))
              /\ reference_normal = Some(Normal(Reference))
              /\ <<0, Reference>> \in Range(robust_slices)
              /\ Reference \in Range(vol.slices)

\* Three slices discovered middle first: the reference is emitted second,
\* between a slice of negative and a slice of positive distance.
C22_Witness ==
    /\ stack_pc = "done"
    /\ Len(robust_slices) = 3
    /\ robust_slices[1][1] < 0
    /\ robust_slices[2] = <<0, Reference>>
    /\ robust_slices[3][1] > 0
    /\ dicom_files[1] = Reference
    /\ vol.slices[2] = Reference

\* C23: a parsed slice without a 3-vector position or a 6-vector orientation
\* is keyed by its slice location when it has one (0 included), otherwise by
\* its instance number when it has one, otherwise by 0.
C23_FallbackKeyPrecedence ==
    stack_pc \in {"sort", "done"} =>
        /\ \A id \in Range(dicom_files) :
              (Readable(id) /\ ~HasGeometry(SliceCatalogue[id]))
                  <=> id \in Range(Ids(fallback_slices))
        /\ \A p \in Range(fallback_slices) :
              LET ds == SliceCatalogue[p[2]] IN
              /\ ds.sl # None => p[1] = ds.sl[1]
              /\ (ds.sl = None /\ ds.ins # None) => p[1] = ds.ins[1]
              /\ (ds.sl = None /\ ds.ins = None) => p[1] = 0

\* A slice with slice location 0 and instance number 7 was keyed 0, one with
\* slice location 5 and instance number 1 was keyed 5, and one with a
\* position of the wrong length is among the fallback slices.
C23_Witness ==
    /\ stack_pc = "done"
    /\ \E p \in Range(fallback_slices) :
          /\ SliceCatalogue[p[2]].sl = Some(0)
          /\ SliceCatalogue[p[2]].ins = Some(7)
          /\ SliceCatalogue[p[2]].ipp # None
          /\ p[1] = 0
    /\ \E p \in Range(fallback_slices) :
          /\ SliceCatalogue[p[2]].sl = Some(5)
          /\ SliceCatalogue[p[2]].ins = Some(1)
          /\ p[1] = 5
    /\ \E p \in Range(fallback_slices) :
          /\ SliceCatalogue[p[2]].sl = None
          /\ SliceCatalogue[p[2]].ins = Some(2)
          /\ p[1] = 2

\* Index at which a slice was discovered, and the key it was parsed with.
Discovered(id) == CHOOSE i \in 1..Len(dicom_files) : dicom_files[i] = id

KeyOf(id) ==
    LET pairs == robust_slices \o fallback_slices
    IN  pairs[CHOOSE i \in 1..Len(pairs) : pairs[i][2] = id][1]

SameGroup(a, b) == Resolvable(a) <=> Resolvable(b)

\* C24: two slices of one group with equal order keys appear in the volume
\* in the relative order in which they were discovered.
C24_StableWithinGroup ==
    stack_pc = "done" =>
        \A i, j \in 1..Len(vol.slices) :
            (/\ i < j
             /\ SameGroup(vol.slices[i], vol.slices[j])
             /\ KeyOf(vol.slices[i]) = KeyOf(vol.slices[j]))
                => Discovered(vol.slices[i]) < Discovered(vol.slices[j])

\* Two slices at the same position were discovered after a slice that sorts
\* behind them, and two fallback slices share the key 0.
C24_Witness ==
    /\ stack_pc = "done"
    /\ Len(vol.slices) = 3
    /\ \E i, j \in 1..3 :
          /\ i < j
          /\ SameGroup(vol.slices[i], vol.slices[j])
          /\ KeyOf(vol.slices[i]) = KeyOf(vol.slices[j])
          /\ Discovered(vol.slices[i]) = 2
          /\ Discovered(vol.slices[j]) = 3

\* C25: the returned volume has shape [D, h, w] with h and w the minimum
\* height and width over all parsed slices; every slice is cropped to its
\* top-left h-by-w region and a slice already h by w is stacked unchanged.
C25_VolumeIsDepthByMinHeightByMinWidth ==
    stack_pc = "done" =>
        LET h == Min({Height(id) : id \in Parsed})
            w == Min({Width(id) : id \in Parsed})
        IN  /\ vol.shape = <<Cardinality(Parsed), h, w>>
            /\ \A i \in 1..Len(vol.arrays_clipped) :
                  LET c == vol.arrays_clipped[i] IN
                  /\ c.array = vol.slices[i]
                  /\ c.kept = (0..(h - 1)) \X (0..(w - 1))
                  /\ (Height(c.array) = h /\ Width(c.array) = w) =>
                        c.kept = (0..(Height(c.array) - 1)) \X (0..(Width(c.array) - 1))


(***************************************************************************)
(* Properties of gating, binarisation and presence                         *)
(***************************************************************************)
\* Probabilities in units of 1/ProbScale, read off the model output.
ExistenceProb(d) == output.existence_logits[d] + LogitMax

VoxelProb(x) == output.mask_logits[x[1]][x[2]] + LogitMax

Foreground == {x \in Voxels : vol_mask_bin[x[1]][x[2]] = 1}

\* C26: in the binary mask of a prompt before it is mapped back, a voxel is
\* foreground exactly when its slice's existence probability is strictly
\* greater than the threshold and its own probability is strictly greater
\* than the threshold, on both endpoints.
C26_StrictGateAndBinarize ==
    endpoint # "none" =>
        /\ \A x \in Voxels :
              vol_mask_bin[x[1]][x[2]] =
                  IF ExistenceProb(x[1]) > threshold /\ VoxelProb(x) > threshold
                  THEN 1 ELSE 0
        /\ nifti_mask(output, threshold) = dicom_mask(output, threshold)

\* One slice sits exactly on the threshold and is zeroed although its
\* voxels exceed it; in the other slice one voxel sits on the threshold and
\* is background while its neighbour is foreground.
C26_Witness ==
    /\ endpoint = "nifti"
    /\ threshold > 0
    /\ Len(output.mask_logits) = 2
    /\ ExistenceProb(1) = threshold
    /\ \A v \in 1..VoxelsPerSlice : VoxelProb(<<1, v>>) > threshold
    /\ ExistenceProb(2) > threshold
    /\ VoxelProb(<<2, 1>>) = threshold
    /\ Foreground = {<<2, 2>>}

MaxExistence ==
    CHOOSE m \in {ExistenceProb(d) : d \in 1..Len(output.existence_logits)} :
        \A d \in 1..Len(output.existence_logits) : ExistenceProb(d) <= m

\* presence (a fraction) > threshold (in units of 1/ProbScale)
ExceedsThreshold(f) == f[1] * ProbScale > threshold * f[2]

\* C27: presence_confidence is the maximum existence probability over the
\* slices of the prompt, whatever the threshold; when it does not exceed
\* the threshold the binary mask is all background and mask_confidence is
\* 0.0, and a mask with a foreground voxel has a presence_confidence above
\* the threshold.
C27_PresenceIsMaxExistence ==
    endpoint # "none" =>
        /\ FracEq(result_entry.presence_confidence, MaxExistence, ProbScale)
        /\ Entry(endpoint, output, ProbScale + 1).presence_confidence   \* all gated
              = result_entry.presence_confidence
        /\ ~ExceedsThreshold(result_entry.presence_confidence) =>
              /\ Foreground = {}
              /\ result_entry.mask_confidence = <<0, 1>>
        /\ Foreground # {} => ExceedsThreshold(result_entry.presence_confidence)

\* Two slices of different existence probability, the larger one exactly on
\* the threshold, every voxel probability above it: nothing is foreground.
C27_Witness ==
    /\ endpoint = "dicom"
    /\ Len(output.existence_logits) = 2
    /\ ExistenceProb(1) < ExistenceProb(2)
    /\ ExistenceProb(2) = threshold
    /\ \A x \in Voxels : VoxelProb(x) > threshold
    /\ result_entry.presence_confidence = <<1, 2>>
    /\ Foreground = {}
    /\ result_entry.mask_confidence = <<0, 1>>


(***************************************************************************)
(* Properties of a successful fetch                                        *)
(***************************************************************************)
B64Value(c) == (CHOOSE i \in 1..Len(B64Alphabet) : B64Alphabet[i] = c) - 1

\* The bytes a client decodes from a base64 string.
RECURSIVE B64Decode(_)
B64Decode(s) ==
    IF Len(s) < 4 THEN <<>>
    ELSE LET one == B64Value(s[1]) * 4 + (B64Value(s[2]) \div 16) IN
         IF s[3] = "=" THEN <<one>>
         ELSE LET two == (B64Value(s[2]) % 16) * 16 + (B64Value(s[3]) \div 4) IN
              IF s[4] = "=" THEN <<one, two>>
              ELSE <<one, two, (B64Value(s[3]) % 4) * 64 + B64Value(s[4])>>
                   \o B64Decode(SubSeq(s, 5, Len(s)))

RECURSIVE Product(_)
Product(shape) == IF shape = <<>> THEN 1 ELSE Head(shape) * Product(Tail(shape))

\* The array the request names, as it is stored.
StoredArray == fs_files[Target].arrays[fetch_req.key]

\* Masks whose seg artifact a request could have written.
Masks == [1..1 -> [1..2 -> {0, 1}]]

\* C21: a successful response has dtype "uint8", the stored array's shape,
\* and base64 data that decodes to product(shape) bytes in C order; a stored
\* uint8 array comes back unchanged, so a seg artifact fetched with key
\* 'seg' gives back the mask and its shape, and values of any other dtype
\* come back clipped to 0..255.
C21_FetchReturnsClippedU8 ==
    (Fetched /\ fetch_resp.status = 200) =>
        LET bytes == B64Decode(fetch_resp.data_base64) IN
        /\ fetch_resp.dtype = "uint8"
        /\ fetch_resp.shape = StoredArray.shape
        /\ Len(bytes) = Product(fetch_resp.shape)
        /\ Len(fetch_resp.data_base64) % 4 = 0
        /\ \A k \in 1..Len(bytes) : bytes[k] \in 0..255
        /\ StoredArray.dtype = "uint8" => bytes = StoredArray.data
        /\ StoredArray.dtype # "uint8" =>
              \A k \in 1..Len(bytes) :
                  bytes[k] = IF StoredArray.data[k] < 0 THEN 0
                             ELSE IF StoredArray.data[k] > 255 THEN 255
                             ELSE StoredArray.data[k]
        /\ \A m \in Masks :
              (fs_files[Target] = SegFile(m) /\ fetch_req.key = "seg") =>
                  /\ fetch_resp.shape = Shape(m)
                  /\ bytes = Flatten(m)

\* A signed 2x2 array with values below 0 and above 255 was fetched.
C21_Witness ==
    /\ fetch_resp.status = 200
    /\ fetch_req = [name |-> SegA, key |-> "seg"]
    /\ fs_files[Target] = WideArchive
    /\ fetch_resp.shape = <<2, 2>>
    /\ fetch_resp.data_base64 = <<"A", "A", "f", "/", "/", "w", "=", "=">>
    /\ B64Decode(fetch_resp.data_base64) = <<0, 7, 255, 255>>
    /\ SegArchive = SegFile(<< <<0, 1>> >>)


(***************************************************************************)
(* Properties of the artifacts and the outcome of a request                *)
(***************************************************************************)
IsSeg(w) == w.path[Len(w.path)][1] = "seg_"

IsProb(w) == w.path[Len(w.path)][1] = "prob_"

\* The writes request r made for its prompt number k (counted from 0).
SegWrites(r, k) == {w \in writes : w.by = r /\ w.prompt = k /\ IsSeg(w)}

ProbWrites(r, k) == {w \in writes : w.by = r /\ w.prompt = k /\ IsProb(w)}

Succeeded(r) == req[r].pc = "done"

\* C28: a successful request has written exactly one seg artifact per
\* returned result; without return_heatmap it has written no prob artifact
\* and no result has a heatmap_url; with return_heatmap every result has a
\* heatmap_url that names the prob file written for that result, whose array
\* has the shape of the result's seg array and of its mask_shape.
C28_OneSegAndOwnProbPerResult ==
    \A r \in Callers :
        Succeeded(r) =>
            LET results == req[r].response.results IN
            /\ Cardinality({w \in writes : w.by = r /\ IsSeg(w)}) = Len(results)
            /\ \A k \in 1..Len(results) :
                  /\ Cardinality(SegWrites(r, k - 1)) = 1
                  /\ \A w \in SegWrites(r, k - 1) :
                        /\ results[k].mask_url = FileUrl(w.path)
                        /\ w.stored.arrays["seg"].shape = results[k].mask_shape
            /\ ~req[r].return_heatmap =>
                  /\ {w \in writes : w.by = r /\ IsProb(w)} = {}
                  /\ \A k \in 1..Len(results) : results[k].heatmap_url = None
            /\ req[r].return_heatmap =>
                  \A k \in 1..Len(results) :
                      /\ results[k].heatmap_url # None
                      /\ Cardinality(ProbWrites(r, k - 1)) = 1
                      /\ \A w \in ProbWrites(r, k - 1) :
                            /\ results[k].heatmap_url = Some(FileUrl(w.path))
                            /\ w.path \in DOMAIN fs_files
                            /\ fs_files[w.path] = w.stored
                            /\ fs_files[w.path].arrays["prob"].shape
                                  = results[k].mask_shape

\* C29: a request ends in a success that carries one result per processed
\* prompt or in a single failure without results; within a prompt the prob
\* artifact is written before it is validated and the seg artifact after,
\* so a validation failure at prompt k leaves prompt k without seg artifact
\* and every later prompt without any artifact.
C29_AllOrNothingAndStepOrder ==
    \A r \in Callers :
        /\ req[r].response.status \in {0, 200, 400, 500}
        /\ req[r].response.status = 0 <=> req[r].pc \notin {"done", "failed", "rejected"}
        /\ Succeeded(r) =>
              /\ req[r].response.status = 200
              /\ Len(req[r].response.results) = req[r].i
              /\ req[r].i = Min({Len(req[r].prompts), Len(req[r].channels)})
              /\ \A k \in 1..req[r].i :
                    req[r].response.results[k].prompt = req[r].prompts[k]
        /\ req[r].pc = "failed" =>
              /\ req[r].response.status = 500
              /\ req[r].response.detail # <<>>
              /\ req[r].response.results = <<>>
        /\ req[r].pc = "rejected" =>
              /\ req[r].response.status = 400
              /\ req[r].response.results = <<>>
        /\ req[r].pc = "validate" =>
              /\ ProbWrites(r, req[r].i) # {}
              /\ SegWrites(r, req[r].i) = {}
        /\ \A k \in 0..MaxPrompts :
              (SegWrites(r, k) # {} /\ req[r].return_heatmap) => ProbWrites(r, k) # {}
        /\ ValidationFailed(r) =>
              /\ ProbWrites(r, req[r].i) # {}
              /\ SegWrites(r, req[r].i) = {}
              /\ \A w \in writes : w.by = r => w.prompt <= req[r].i
              /\ Len(req[r].results_out) = req[r].i

\* Validation failed at the second of two prompts: the first prompt's
\* result and artifacts exist, the answer carries no result.
C29_Witness ==
    \E r \in Callers :
        /\ ValidationFailed(r)
        /\ req[r].i = 1
        /\ Len(req[r].prompts) = 2
        /\ Len(req[r].results_out) = 1
        /\ SegWrites(r, 0) # {}
        /\ ProbWrites(r, 1) # {}
        /\ SegWrites(r, 1) = {}
        /\ req[r].response.status = 500
        /\ req[r].response.results = <<>>

InFlight(r) == req[r].pc \in {"input", "loop", "validate", "persist"}

\* C30: the temporary input of a request exists while the request is being
\* processed and is gone once the inference function has returned or
\* raised, at whatever step; no artifact that was ever written is missing
\* from the artifact directory.
C30_TmpInputRemovedArtifactsKept ==
    /\ \A r \in Callers :
          /\ InFlight(r) => TmpInput(r) \in DOMAIN fs_files
          /\ req[r].pc \in {"done", "failed"} => TmpInput(r) \notin DOMAIN fs_files
          /\ req[r].pc \in {"idle", "rejected"} => TmpInput(r) \notin DOMAIN fs_files
    /\ \A w \in writes : w.path \in DOMAIN fs_files

\* One request returned, the other raised while writing an artifact, both
\* temporary inputs are gone and the artifacts are on disk.
C30_Witness ==
    \E r, o \in Callers :
        /\ Succeeded(r)
        /\ Len(req[r].response.results) >= 1
        /\ req[o].pc = "failed"
        /\ req[o].failed_at = "write"
        /\ \E w \in writes : w.by = o
        /\ TmpInput(r) \notin DOMAIN fs_files
        /\ TmpInput(o) \notin DOMAIN fs_files
        /\ \A w \in writes : w.path \in DOMAIN fs_files

====
